---- MODULE Spec2Model ----
(***************************************************************************)
(* The PhonePi relay (server/src/index.ts, class PhonePiMCPServer) as a    *)
(* state machine.  A relay process either owns the rendezvous port         *)
(* (listener) and accepts peer connections, or connects to the owner as a  *)
(* follower.  Host calls are correlated with response frames through       *)
(* pendingRequests; a ping interval watches the liveness of the current    *)
(* connection.                                                             *)
(*                                                                         *)
(* Time is counted in units of 15000 ms, the period of the ping interval.  *)
(* A timer carries the number of units left until it fires, and            *)
(* Date.now() - lastPing is kept as an age.  The 5000 ms delays are a      *)
(* fraction of a unit: such a timer falls due before or after the next     *)
(* unit boundary.                                                          *)
(***************************************************************************)
EXTENDS Naturals, Integers, Sequences, FiniteSets, TLC

\* ---------------------------------------------------------------- bounds
NumProcs == 2
MaxPhones == 2
MaxCalls == 1
MaxFwds == 1
MaxRetries == 7
\* One link, of two sockets, between the listener and each other process.
MaxSocks == MaxPhones + 2 * (NumProcs - 1)

\* ------------------------------------------ program constants (x 15000 ms)
PING_INTERVAL == 1
PING_TIMEOUT == 3
CALL_TIMEOUT == 2
FWD_TIMEOUT == 2
CONNECTION_TIMEOUT == 1
\* 5000 ms: at most one unit boundary is crossed before the timer is due.
REBIND_DELAY == 1
RECONNECT_DELAY == 1

Procs == 1..NumProcs
Socks == 1..MaxSocks

\* A requestId is a pair <<prefix, n>>; the empty tuple is a missing id.
NoId == << >>
NoTool == "none"
NoData == [status |-> "none", body |-> ""]

\* `req-${++this.requestCounter}`
RequestId(n) == <<"req", n>>

Frame(type, requestId, tool, data) ==
    [type |-> type, requestId |-> requestId, tool |-> tool, data |-> data]

PingFrame == Frame("ping", NoId, NoTool, NoData)
PongFrame == Frame("pong", NoId, NoTool, NoData)
RequestFrame(id, tool) == Frame("request", id, tool, NoData)
ResponseFrame(id, data) == Frame("response", id, NoTool, data)
ErrorFrame == Frame("error", NoId, NoTool, [status |-> "error", body |-> "Invalid JSON format"])

\* Payloads a peer may answer with, and the error payloads the relay builds.
Payloads == {[status |-> "ok", body |-> "d1"], [status |-> "ok", body |-> "d2"]}
ErrData(msg) == [status |-> "error", body |-> msg]
PongData == [status |-> "success", body |-> "pong"]
InfoData == [status |-> "success", body |-> "info"]

\* Ids a peer may put on its frames: one that collides with the relay's own
\* first id, and one that cannot.
PeerIds == {RequestId(1), <<"peer", 1>>}

\* Everything a peer may write on its connection.
PeerFrames ==
    {PingFrame, PongFrame,
     Frame("ping", <<"peer", 1>>, NoTool, NoData),
     Frame("unknown", NoId, NoTool, NoData),
     Frame("invalid-json", NoId, NoTool, NoData),
     ResponseFrame(NoId, [status |-> "ok", body |-> "d1"]),
     RequestFrame(NoId, "get_battery_level"),
     RequestFrame(<<"peer", 1>>, NoTool),
     RequestFrame(<<"peer", 1>>, "ping"),
     RequestFrame(<<"peer", 1>>, "get_server_info")}
    \cup {ResponseFrame(i, d) : i \in PeerIds \cup {RequestId(2)}, d \in Payloads}
    \cup {RequestFrame(i, "get_battery_level") : i \in PeerIds}

VARIABLES
    portOwner,        \* the process that holds the rendezvous port (0: none)
    alive,            \* per process: "unstarted", "running", "exited"
    wss,              \* per process: this.wss  ("null", "pending", "listening")
    phoneConnection,  \* per process: this.phoneConnection (socket id, 0: null)
    pendingRequests,  \* per process: this.pendingRequests (id -> resolver)
    requestCounter,   \* per process: this.requestCounter
    lastPingAge,      \* per process: Date.now() - this.lastPing, capped
    pingIntervalId,   \* per process: this._pingIntervalId (timer tag, -1: null)
    timers,           \* per process: armed timers [kind, tag, left]
    calls,            \* per process: host calls in the order they were issued
    fwds,             \* per process: peer requests forwarded to the phone
    sockOwner,        \* per socket: owning process (0: not created)
    sockPeer,         \* per socket: the other end (0: a phone, else a socket)
    sockKind,         \* per socket: "accepted", "outbound", "none"
    readyState,       \* per socket: ws.readyState
    inbox,            \* per socket: frames in flight to it from a relay peer
    terminated,       \* per socket: times the ping interval force-closed it
    owed,             \* per socket: requests with an id handled on it, less the
                      \* response frames written on it
    pidFile,          \* ~/.phonepi-mcp/server.pid: a pid (0: no file)
    portFile,         \* ~/.phonepi-mcp/server.port: the port it holds (0: no file)
    cli,              \* the CLI command under way and the step it is at
    signalled,        \* the processes that were sent a signal and have not ended yet
    watched,          \* the processes whose foreground parent waits for their 'exit'
    other,            \* the server on the port that is not the default one:
                      \* "none", "listening", "signalled"
    client,           \* the connectToServer call of the phonepi-cli client
    wrote,            \* the frames the last step wrote, while they are recorded
    sessionAge        \* per process: the age of its current connection, while it
                      \* is tracked (0 without a connection)

procVars == <<alive, wss, phoneConnection, sessionAge, lastPingAge, pingIntervalId>>
corrVars == <<pendingRequests, requestCounter, calls, fwds>>
cliVars == <<pidFile, portFile, cli, signalled, watched, other, client>>
sockVars == <<sockOwner, sockPeer, sockKind, readyState, terminated>>
vars == <<portOwner, alive, wss, phoneConnection, pendingRequests, requestCounter,
          lastPingAge, pingIntervalId, timers, calls, fwds, sockOwner, sockPeer,
          sockKind, readyState, inbox, terminated, owed, pidFile, portFile, cli,
          signalled, watched, other, client, wrote, sessionAge>>

\* ------------------------------------------------------------- Map helpers
EmptyMap == [x \in {} |-> 0]
MapSet(m, k, v) == [x \in (DOMAIN m) \cup {k} |-> IF x = k THEN v ELSE m[x]]
\* A delete that leaves the entry in place.
MapKeep(m, k) == m
MapDelete(m, k) == [x \in (DOMAIN m) \ {k} |-> m[x]]

NoTimerId == 0 - 1
AgeCap == PING_TIMEOUT + 1

Timer(kind, tag, left) == [kind |-> kind, tag |-> tag, left |-> left]

\* No CLI command is under way.
\* cli.ts 45 and 94: the port option, 11041 unless another port is given.
DefaultPort == 1
OtherPort == 2
Ports == {DefaultPort, OtherPort}

\* The pid of the server that startServer spawned for the other port.
OtherPid == NumProcs + 1

Idle == [cmd |-> "none", at |-> "done", found |-> FALSE, attempt |-> 0, background |-> FALSE,
         port |-> DefaultPort, stopPort |-> 0]

\* The frames of a step are not recorded / are recorded (those it wrote, and
\* the one it took from a connection); the age of a connection is not tracked.
\* An error, by its message and the phrases that client.ts 116-119 looks for
\* in it.
NoErr == [text |-> "", has |-> {}]
ErrTimeout == [text |-> "Connection timeout", has |-> {}]
ErrNoTools == [text |-> "No tools available from server", has |-> {}]
ErrClosed == [text |-> "MCP error -32000: Connection closed", has |-> {"Connection closed"}]
ErrEnoent == [text |-> "spawn npx ENOENT", has |-> {"ENOENT"}]

\* client.ts 46-51: connectToServer(retries) is entered.
NewClient(retries, verbose) ==
    [retries |-> retries, verbose |-> verbose, attempt |-> 1, at |-> "loop", result |-> "none",
     tried |-> 0, waits |-> << >>, err |-> NoErr, thrown |-> NoErr, cleaned |-> FALSE,
     tools |-> 0]

\* No call of connectToServer is under way.
NoClient == [NewClient(0, FALSE) EXCEPT !.at = "none"]

NotRecorded == [on |-> FALSE, frames |-> << >>, took |-> << >>]
Recorded(frames, took) == [on |-> TRUE, frames |-> frames, took |-> took]
Untracked == 0 - 1

\* index.ts 40-62: the fields of a process before its constructor has run.
Constructing ==
    /\ portOwner = 0
    /\ alive = [p \in Procs |-> IF p = 1 THEN "running" ELSE "unstarted"]
    /\ wss = [p \in Procs |-> IF p = 1 THEN "pending" ELSE "null"]
    /\ phoneConnection = [p \in Procs |-> 0]
    /\ pendingRequests = [p \in Procs |-> EmptyMap]
    /\ requestCounter = [p \in Procs |-> 0]
    /\ lastPingAge = [p \in Procs |-> AgeCap]
    /\ pingIntervalId = [p \in Procs |-> NoTimerId]
    /\ timers = [p \in Procs |-> {}]
    /\ calls = [p \in Procs |-> << >>]
    /\ fwds = [p \in Procs |-> << >>]
    /\ sockOwner = [s \in Socks |-> 0]
    /\ sockPeer = [s \in Socks |-> 0]
    /\ sockKind = [s \in Socks |-> "none"]
    /\ readyState = [s \in Socks |-> "CLOSED"]
    /\ inbox = [s \in Socks |-> << >>]
    /\ terminated = [s \in Socks |-> 0]
    /\ owed = [s \in Socks |-> 0]
    /\ pidFile = 0
    /\ portFile = 0
    /\ cli = Idle
    /\ signalled = {}
    /\ watched = {}
    /\ other = "none"

Init ==
    /\ Constructing
    /\ wrote = NotRecorded
    /\ sessionAge = [p \in Procs |-> Untracked]
    /\ client = NoClient

\* The same start, with the frames of every step recorded.
InitWrites ==
    /\ Constructing
    /\ wrote = Recorded(<< >>, << >>)
    /\ sessionAge = [p \in Procs |-> Untracked]
    /\ client = NoClient

\* The same start, with the age of every current connection tracked.
InitAges ==
    /\ Constructing
    /\ wrote = NotRecorded
    /\ sessionAge = [p \in Procs |-> 0]
    /\ client = NoClient

\* The same start, with a call of connectToServer(retries) of a client that is
\* verbose or not.
InitClient ==
    /\ Constructing
    /\ wrote = NotRecorded
    /\ sessionAge = [p \in Procs |-> Untracked]
    /\ client \in {NewClient(r, v) : r \in 0..MaxRetries, v \in BOOLEAN}


\* ----------------------------------------------------------- transport
\* A socket id stands for a ws object.  Before it is first used, and once the
\* object is closed and no timer, call or forward names it and its other end is
\* closed too, the id is free and may stand for a new object.
Referenced(s, ts) ==
    \/ \E p \in Procs :
          \/ phoneConnection[p] = s
          \/ \E t \in ts[p] : t.kind \in {"conn", "rebind", "reconnect"} /\ t.tag = s
          \/ \E i \in 1..Len(calls[p]) : calls[p][i].sock = s
          \/ \E j \in 1..Len(fwds[p]) : fwds[p][j].ws = s
    \/ \E t \in Socks : sockPeer[t] = s /\ readyState[t] # "CLOSED"
\* The sockets 1..MaxPhones stand for the connections of phones, the others
\* for the two ends of the links between relay processes.
Unused(s, ts) == readyState[s] = "CLOSED" /\ ~Referenced(s, ts)
FreeSocksWith(ts) == {s \in Socks : s > MaxPhones /\ Unused(s, ts)}
MinSock(S) == CHOOSE s \in S : \A t \in S : s <= t
FreeSocks == FreeSocksWith(timers)
HasFreeSock == FreeSocks # {}
NextSock == MinSock(FreeSocks)
FreePhoneSocks == {s \in Socks : s <= MaxPhones /\ Unused(s, timers)}

\* Whether a socket still emits 'message' events (its 'close' event is not out).
Receiving(s) == readyState[s] \in {"OPEN", "CLOSING"}

\* ws.close(): starts the closing handshake of an open socket.
WsClose(rs, s) == IF s # 0 /\ rs[s] = "OPEN" THEN [rs EXCEPT ![s] = "CLOSING"] ELSE rs

\* The frames of snd that reach socket t: written on an OPEN socket whose other
\* end is t (ws drops what is sent on a socket that is not OPEN), while t is not
\* closed (what arrives for a closed socket is lost).
RECURSIVE FramesFor(_, _, _, _)
FramesFor(snd, t, rs, peer) ==
    IF snd = << >> THEN << >>
    ELSE LET h == Head(snd)
             rest == FramesFor(Tail(snd), t, rs, peer)
         IN IF h.sock \in Socks /\ peer[h.sock] = t /\ rs[h.sock] = "OPEN" /\ rs[t] # "CLOSED"
            THEN <<h.frame>> \o rest ELSE rest

\* The frames with an id among those of snd that handleIncomingRequest took
\* from t, and the response frames of snd that were written on t.
Asked(snd, t) ==
    Cardinality({k \in 1..Len(snd) : snd[k].got = t /\ snd[k].frame.requestId # NoId})
Answered(snd, t) ==
    Cardinality({k \in 1..Len(snd) : snd[k].sock = t /\ snd[k].frame.type = "response"})

\* The elements of snd that are writes, in the order of the ws.send calls.
RECURSIVE Writes(_)
Writes(snd) ==
    IF snd = << >> THEN << >>
    ELSE IF Head(snd).sock # 0
         THEN <<[sock |-> Head(snd).sock, frame |-> Head(snd).frame]>> \o Writes(Tail(snd))
         ELSE Writes(Tail(snd))

\* The elements of snd that are frames taken from a connection.
RECURSIVE Taken(_)
Taken(snd) ==
    IF snd = << >> THEN << >>
    ELSE IF Head(snd).took # 0
         THEN <<[sock |-> Head(snd).took, frame |-> Head(snd).frame]>> \o Taken(Tail(snd))
         ELSE Taken(Tail(snd))

\* A step that writes no frame.
NoWrite == wrote' = IF wrote.on THEN Recorded(<< >>, << >>) ELSE wrote

\* The age a of the current connection of p, when ages are tracked.
Aged(p, a) == [sessionAge EXCEPT ![p] = IF @ = Untracked THEN @ ELSE a]

\* ws.send for every element of snd, on top of the inboxes ib.
Send(snd, ib, rs, peer) ==
    /\ inbox' = [t \in Socks |-> ib[t] \o FramesFor(snd, t, rs, peer)]
    /\ owed' = [t \in Socks |-> owed[t] + Asked(snd, t) - Answered(snd, t)]
    /\ wrote' = IF wrote.on THEN Recorded(Writes(snd), Taken(snd)) ELSE wrote

SendNow(snd, ib) == Send(snd, ib, readyState, sockPeer)

\* The frame f is written on socket s; the frame m, taken from socket s, is
\* handled by handleIncomingRequest; the frame m was taken from socket s.
Wr(s, f) == [sock |-> s, frame |-> f, got |-> 0, took |-> 0]
Got(s, m) == [sock |-> 0, frame |-> m, got |-> s, took |-> s]
Took(s, m) == [sock |-> 0, frame |-> m, got |-> 0, took |-> s]

\* ----------------------------------------------------------- correlation
\* A promise settles once; settles counts the calls of resolve and reject.  The
\* record of a settled call keeps the outcome and no longer names a socket.
Settle(rec, st, val) ==
    [rec EXCEPT !.st = IF rec.st = "pending" THEN st ELSE rec.st,
                !.val = IF rec.st = "pending" THEN val ELSE rec.val,
                !.settles = rec.settles + 1,
                !.sock = 0]

\* The promise of a forward (index.ts 457, 515-544): once it settles, one
\* response frame is written to the requester.
SettleFwd(rec, st) ==
    [rec EXCEPT !.st = IF rec.st = "pending" THEN st ELSE rec.st,
                !.settles = rec.settles + 1,
                !.replies = IF rec.st = "pending" THEN rec.replies + 1 ELSE rec.replies,
                !.ws = 0]

CallResolver(i) == [kind |-> "call", idx |-> i]
FwdResolver(j) == [kind |-> "fwd", idx |-> j]

\* A clearTimeout that leaves the timer armed.
KeepTimeout(ts, kind, tag) == ts

ClearTimeout(ts, kind, tag) == {t \in ts : ~(t.kind = kind /\ t.tag = tag)}

\* The guard of index.ts 1273 alone, without the readyState guard of 1280.
PhoneSet(p) == phoneConnection[p] # 0

PhoneOpen(p) == phoneConnection[p] # 0 /\ readyState[phoneConnection[p]] = "OPEN"

\* index.ts 1272-1285: the guards of the CallTool handler.
CallToolRejected(p) ==
    /\ alive[p] = "running"
    /\ Len(calls[p]) < MaxCalls
    /\ ~PhoneOpen(p)
    /\ calls' = [calls EXCEPT ![p] = Append(@,
                    [rid |-> NoId, st |-> "rejected", settles |-> 1, sock |-> 0,
                     val |-> IF phoneConnection[p] = 0
                             THEN ErrData("Phone not connected")
                             ELSE ErrData("Phone connection is not open")])]
    /\ SendNow(<< >>, inbox)
    /\ UNCHANGED <<cliVars, portOwner, procVars, pendingRequests, requestCounter, fwds,
                   timers, sockVars>>

\* index.ts 1287-1350: the id, the deadline, the resolver and the request frame.
CallToolSent(p) ==
    /\ alive[p] = "running"
    /\ Len(calls[p]) < MaxCalls
    /\ PhoneOpen(p)
    /\ LET n == requestCounter[p] + 1
           i == Len(calls[p]) + 1
       IN /\ requestCounter' = [requestCounter EXCEPT ![p] = n]
          /\ calls' = [calls EXCEPT ![p] = Append(@,
                          [rid |-> RequestId(n), st |-> "pending", settles |-> 0,
                           sock |-> phoneConnection[p], val |-> NoData])]
          /\ timers' = [timers EXCEPT ![p] = @ \cup {Timer("call", i, CALL_TIMEOUT)}]
          /\ pendingRequests' = [pendingRequests EXCEPT
                                   ![p] = MapSet(@, RequestId(n), CallResolver(i))]
          /\ SendNow(<<Wr(phoneConnection[p], RequestFrame(RequestId(n), "get_battery_level"))>>,
                     inbox)
    /\ UNCHANGED <<cliVars, portOwner, procVars, fwds, sockVars>>

CallTool(p) == CallToolRejected(p) \/ CallToolSent(p)

\* The deadline callback without the reject of index.ts 1299.
CallTimeoutIdle(p, i) ==
    /\ alive[p] = "running"
    /\ Timer("call", i, 0) \in timers[p]
    /\ timers' = [timers EXCEPT ![p] = @ \ {Timer("call", i, 0)}]
    /\ pendingRequests' = [pendingRequests EXCEPT ![p] = MapDelete(@, calls[p][i].rid)]
    /\ SendNow(<< >>, inbox)
    /\ UNCHANGED <<cliVars, portOwner, procVars, requestCounter, calls, fwds, sockVars>>

\* index.ts 1297-1300: the deadline of host call i fires.
CallTimeout(p, i) ==
    /\ alive[p] = "running"
    /\ Timer("call", i, 0) \in timers[p]
    /\ timers' = [timers EXCEPT ![p] = @ \ {Timer("call", i, 0)}]
    /\ pendingRequests' = [pendingRequests EXCEPT ![p] = MapDelete(@, calls[p][i].rid)]
    /\ calls' = [calls EXCEPT ![p][i] =
                    Settle(@, "rejected", ErrData("Request timed out after 30 seconds"))]
    /\ SendNow(<< >>, inbox)
    /\ UNCHANGED <<cliVars, portOwner, procVars, requestCounter, fwds, sockVars>>

\* index.ts 459-466 and 523-544: the deadline of forward j fires, and the
\* requester is answered with an error payload.
FwdTimeout(p, j) ==
    /\ alive[p] = "running"
    /\ Timer("fwd", j, 0) \in timers[p]
    /\ timers' = [timers EXCEPT ![p] = @ \ {Timer("fwd", j, 0)}]
    /\ pendingRequests' = [pendingRequests EXCEPT ![p] = MapDelete(@, fwds[p][j].rid)]
    /\ fwds' = [fwds EXCEPT ![p][j] =
                   SettleFwd(@, "rejected")]
    /\ SendNow(<<Wr(fwds[p][j].ws,
                    ResponseFrame(fwds[p][j].rid, ErrData("Failed to get response from phone")))>>,
               inbox)
    /\ UNCHANGED <<cliVars, portOwner, procVars, requestCounter, calls, sockVars>>


\* ------------------------------------------------------ inbound requests
\* index.ts 395-403: a request without requestId is dropped.
RequestNoId(p, ws, m, ib) ==
    /\ m.requestId = NoId
    /\ SendNow(<<Got(ws, m)>>, ib)
    /\ UNCHANGED <<cliVars, portOwner, procVars, corrVars, timers, sockVars>>

\* The branch of the missing tool without the ws.send of index.ts 412.
RequestNoToolSilent(p, ws, m, ib) ==
    /\ m.requestId # NoId
    /\ m.tool = NoTool
    /\ SendNow(<<Got(ws, m)>>, ib)
    /\ UNCHANGED <<cliVars, portOwner, procVars, corrVars, timers, sockVars>>

\* index.ts 405-425: a request without tool is answered with an error payload.
RequestNoTool(p, ws, m, ib) ==
    /\ m.requestId # NoId
    /\ m.tool = NoTool
    /\ SendNow(<<Got(ws, m),
                  Wr(ws, ResponseFrame(m.requestId, ErrData("Missing tool name in request")))>>, ib)
    /\ UNCHANGED <<cliVars, portOwner, procVars, corrVars, timers, sockVars>>

\* The branch of the built-in tools without the ws.send of index.ts 537.
RequestBuiltinSilent(p, ws, m, ib) ==
    /\ m.requestId # NoId
    /\ m.tool \in {"ping", "get_server_info"}
    /\ SendNow(<<Got(ws, m)>>, ib)
    /\ UNCHANGED <<cliVars, portOwner, procVars, corrVars, timers, sockVars>>

\* index.ts 435-450 and 537-544: the tools the relay answers itself.
RequestBuiltin(p, ws, m, ib) ==
    /\ m.requestId # NoId
    /\ m.tool \in {"ping", "get_server_info"}
    /\ SendNow(<<Got(ws, m), Wr(ws, ResponseFrame(m.requestId,
                        IF m.tool = "ping" THEN PongData ELSE InfoData))>>, ib)
    /\ UNCHANGED <<cliVars, portOwner, procVars, corrVars, timers, sockVars>>

\* index.ts 457-487: any other tool is forwarded on this.phoneConnection and
\* awaited under the requester's own requestId.
RequestForwarded(p, ws, m, ib) ==
    /\ m.requestId # NoId
    /\ m.tool \notin {NoTool, "ping", "get_server_info"}
    /\ PhoneOpen(p)
    /\ Len(fwds[p]) < MaxFwds
    /\ LET j == Len(fwds[p]) + 1
       IN /\ fwds' = [fwds EXCEPT ![p] = Append(@,
                         [rid |-> m.requestId, ws |-> ws, st |-> "pending",
                          settles |-> 0, replies |-> 0])]
          /\ timers' = [timers EXCEPT ![p] = @ \cup {Timer("fwd", j, FWD_TIMEOUT)}]
          /\ pendingRequests' = [pendingRequests EXCEPT
                                   ![p] = MapSet(@, m.requestId, FwdResolver(j))]
    /\ SendNow(<<Got(ws, m), Wr(phoneConnection[p], RequestFrame(m.requestId, m.tool))>>, ib)
    /\ UNCHANGED <<cliVars, portOwner, procVars, requestCounter, calls, sockVars>>

\* index.ts 457-472, 506-510 and 523-544: with no open phone connection the
\* entry just set is deleted again and the requester gets an error payload.
RequestNotForwarded(p, ws, m, ib) ==
    /\ m.requestId # NoId
    /\ m.tool \notin {NoTool, "ping", "get_server_info"}
    /\ ~PhoneOpen(p)
    /\ pendingRequests' = [pendingRequests EXCEPT ![p] = MapDelete(@, m.requestId)]
    /\ SendNow(<<Got(ws, m), Wr(ws, ResponseFrame(m.requestId,
                        ErrData("Failed to get response from phone")))>>, ib)
    /\ UNCHANGED <<cliVars, portOwner, procVars, requestCounter, calls, fwds, timers, sockVars>>

\* index.ts 387-576
handleIncomingRequest(p, ws, m, ib) ==
    \/ RequestNoId(p, ws, m, ib)
    \/ RequestNoTool(p, ws, m, ib)
    \/ RequestBuiltin(p, ws, m, ib)
    \/ RequestForwarded(p, ws, m, ib)
    \/ RequestNotForwarded(p, ws, m, ib)

\* ------------------------------------------------------- inbound frames
\* A catch block that answers only input in which a requestId is recognised.
MessageInvalidSalvage(p, ws, f, ib) ==
    /\ f.type = "invalid-json"
    /\ SendNow(IF f.requestId = NoId THEN <<Took(ws, f)>>
               ELSE <<Took(ws, f), Wr(ws, ErrorFrame)>>, ib)
    /\ UNCHANGED <<cliVars, portOwner, procVars, corrVars, timers, sockVars>>

\* index.ts 274-298: input that is not JSON is answered with an error frame.
MessageInvalid(p, ws, f, ib) ==
    /\ f.type = "invalid-json"
    /\ SendNow(<<Took(ws, f), Wr(ws, ErrorFrame)>>, ib)
    /\ UNCHANGED <<cliVars, portOwner, procVars, corrVars, timers, sockVars>>

\* A pong branch that also empties the pending-call table.
MessagePongClears(p, ws, f, ib) ==
    /\ f.type = "pong"
    /\ lastPingAge' = [lastPingAge EXCEPT ![p] = 0]
    /\ pendingRequests' = [pendingRequests EXCEPT ![p] = EmptyMap]
    /\ SendNow(<<Took(ws, f)>>, ib)
    /\ UNCHANGED <<cliVars, portOwner, alive, wss, phoneConnection, sessionAge, pingIntervalId,
                   requestCounter, calls, fwds, timers, sockVars>>

\* index.ts 303-304
MessagePong(p, ws, f, ib) ==
    /\ f.type = "pong"
    /\ lastPingAge' = [lastPingAge EXCEPT ![p] = 0]
    /\ SendNow(<<Took(ws, f)>>, ib)
    /\ UNCHANGED <<cliVars, portOwner, alive, wss, phoneConnection, sessionAge, pingIntervalId,
                   corrVars, timers, sockVars>>

\* index.ts 305-311 and 320-324: a response without requestId, or with one that
\* has no entry, is logged.
MessageResponseDropped(p, ws, f, ib) ==
    /\ f.type = "response"
    /\ f.requestId = NoId \/ f.requestId \notin DOMAIN pendingRequests[p]
    /\ SendNow(<<Took(ws, f)>>, ib)
    /\ UNCHANGED <<cliVars, portOwner, procVars, corrVars, timers, sockVars>>

\* index.ts 313-316 with the resolver of 1302-1312: a host call is resolved.
MessageResponseCall(p, ws, f, ib) ==
    /\ f.type = "response"
    /\ f.requestId # NoId
    /\ f.requestId \in DOMAIN pendingRequests[p]
    /\ pendingRequests[p][f.requestId].kind = "call"
    /\ LET i == pendingRequests[p][f.requestId].idx
       IN /\ timers' = [timers EXCEPT ![p] = ClearTimeout(@, "call", i)]
          /\ calls' = [calls EXCEPT ![p][i] = Settle(@, "resolved", f.data)]
    /\ pendingRequests' = [pendingRequests EXCEPT ![p] = MapDelete(@, f.requestId)]
    /\ SendNow(<<Took(ws, f)>>, ib)
    /\ UNCHANGED <<cliVars, portOwner, procVars, requestCounter, fwds, sockVars>>

\* index.ts 313-316 with the resolver of 469-472 and 515-544: a forward is
\* resolved and the requester is answered with the payload.
MessageResponseFwd(p, ws, f, ib) ==
    /\ f.type = "response"
    /\ f.requestId # NoId
    /\ f.requestId \in DOMAIN pendingRequests[p]
    /\ pendingRequests[p][f.requestId].kind = "fwd"
    /\ LET j == pendingRequests[p][f.requestId].idx
       IN /\ timers' = [timers EXCEPT ![p] = ClearTimeout(@, "fwd", j)]
          /\ fwds' = [fwds EXCEPT ![p][j] =
                         SettleFwd(@, "resolved")]
          /\ SendNow(<<Took(ws, f), Wr(fwds[p][j].ws, ResponseFrame(fwds[p][j].rid, f.data))>>, ib)
    /\ pendingRequests' = [pendingRequests EXCEPT ![p] = MapDelete(@, f.requestId)]
    /\ UNCHANGED <<cliVars, portOwner, procVars, requestCounter, calls, sockVars>>

\* index.ts 325-329
MessageRequest(p, ws, f, ib) ==
    /\ f.type = "request"
    /\ handleIncomingRequest(p, ws, f, ib)

\* index.ts 330-335: a ping is handled as a request for the tool "ping".
MessagePing(p, ws, f, ib) ==
    /\ f.type = "ping"
    /\ handleIncomingRequest(p, ws, [f EXCEPT !.tool = "ping"], ib)

\* An else branch that closes the connection.
MessageUnknownFatal(p, ws, f, ib) ==
    /\ f.type \notin {"invalid-json", "pong", "response", "request", "ping"}
    /\ readyState' = WsClose(readyState, ws)
    /\ Send(<<Took(ws, f)>>, ib, readyState', sockPeer)
    /\ UNCHANGED <<cliVars, portOwner, procVars, corrVars, timers, sockOwner, sockPeer,
                   sockKind, terminated>>

\* index.ts 336-338
MessageUnknown(p, ws, f, ib) ==
    /\ f.type \notin {"invalid-json", "pong", "response", "request", "ping"}
    /\ SendNow(<<Took(ws, f)>>, ib)
    /\ UNCHANGED <<cliVars, portOwner, procVars, corrVars, timers, sockVars>>

\* index.ts 256-342
processIncomingMessage(p, ws, f, ib) ==
    \/ MessageInvalid(p, ws, f, ib)
    \/ MessagePong(p, ws, f, ib)
    \/ MessageResponseDropped(p, ws, f, ib)
    \/ MessageResponseCall(p, ws, f, ib)
    \/ MessageResponseFwd(p, ws, f, ib)
    \/ MessageRequest(p, ws, f, ib)
    \/ MessagePing(p, ws, f, ib)
    \/ MessageUnknown(p, ws, f, ib)

\* A phone writes frame f on its connection to socket s.
PhoneFrame(s, f) ==
    /\ sockOwner[s] # 0
    /\ alive[sockOwner[s]] = "running"
    /\ sockPeer[s] = 0
    /\ sockKind[s] = "accepted"
    /\ Receiving(s)
    /\ processIncomingMessage(sockOwner[s], s, f, inbox)


\* ------------------------------------------------------------ heartbeat
MinOf(a, b) == IF a < b THEN a ELSE b

\* A startPingInterval without the clearInterval of index.ts 346-348.
StartPingIntervalLeak(ts, id) ==
    LET used == {t.tag : t \in {u \in ts : u.kind = "ping"}}
        tag == CHOOSE n \in 0..Cardinality(used) : n \notin used
    IN [timers |-> ts \cup {Timer("ping", tag, PING_INTERVAL)}, id |-> tag]

\* index.ts 344-385: the tracked interval is cleared and a new one is armed.
StartPingInterval(ts, id) ==
    LET cleared == IF id # NoTimerId THEN ClearTimeout(ts, "ping", id) ELSE ts
        used == {t.tag : t \in {u \in cleared : u.kind = "ping"}}
        tag == CHOOSE n \in 0..Cardinality(used) : n \notin used
    IN [timers |-> cleared \cup {Timer("ping", tag, PING_INTERVAL)}, id |-> tag]

\* The timed-out branch without the assignment of index.ts 372.
PingTimedOutKeep(p, tag) ==
    /\ alive[p] = "running"
    /\ Timer("ping", tag, 0) \in timers[p]
    /\ phoneConnection[p] # 0
    /\ lastPingAge[p] > PING_TIMEOUT
    /\ LET c == phoneConnection[p]
       IN /\ readyState' = [readyState EXCEPT ![c] = IF @ = "OPEN" THEN "CLOSING" ELSE @]
          /\ terminated' = [terminated EXCEPT ![c] = IF readyState[c] = "OPEN" THEN @ + 1 ELSE @]
    /\ timers' = [timers EXCEPT ![p] = (@ \ {Timer("ping", tag, 0)})
                                        \cup {Timer("ping", tag, PING_INTERVAL)}]
    /\ SendNow(<< >>, inbox)
    /\ UNCHANGED <<cliVars, portOwner, procVars, corrVars, sockOwner, sockPeer, sockKind>>

\* index.ts 351-381: one firing of the ping interval.
\* The connection timed out: it is terminated when OPEN, and forgotten.
PingTimedOut(p, tag) ==
    /\ alive[p] = "running"
    /\ Timer("ping", tag, 0) \in timers[p]
    /\ phoneConnection[p] # 0
    /\ lastPingAge[p] > PING_TIMEOUT
    /\ LET c == phoneConnection[p]
       IN /\ readyState' = [readyState EXCEPT ![c] = IF @ = "OPEN" THEN "CLOSING" ELSE @]
          /\ terminated' = [terminated EXCEPT ![c] = IF readyState[c] = "OPEN" THEN @ + 1 ELSE @]
    /\ phoneConnection' = [phoneConnection EXCEPT ![p] = 0]
    /\ sessionAge' = Aged(p, 0)
    /\ timers' = [timers EXCEPT ![p] = (@ \ {Timer("ping", tag, 0)})
                                        \cup {Timer("ping", tag, PING_INTERVAL)}]
    /\ SendNow(<< >>, inbox)
    /\ UNCHANGED <<cliVars, portOwner, alive, wss, lastPingAge, pingIntervalId,
                   corrVars, sockOwner, sockPeer, sockKind>>

\* The firing for a fresh connection without the send of index.ts 374.
PingProbeSilent(p, tag) ==
    /\ alive[p] = "running"
    /\ Timer("ping", tag, 0) \in timers[p]
    /\ phoneConnection[p] = 0 \/ lastPingAge[p] <= PING_TIMEOUT
    /\ timers' = [timers EXCEPT ![p] = (@ \ {Timer("ping", tag, 0)})
                                        \cup {Timer("ping", tag, PING_INTERVAL)}]
    /\ SendNow(<< >>, inbox)
    /\ UNCHANGED <<cliVars, portOwner, procVars, corrVars, sockVars>>

\* The connection is fresh enough: a ping is written when it is OPEN.  With no
\* connection the firing does nothing.
PingProbe(p, tag) ==
    /\ alive[p] = "running"
    /\ Timer("ping", tag, 0) \in timers[p]
    /\ phoneConnection[p] = 0 \/ lastPingAge[p] <= PING_TIMEOUT
    /\ timers' = [timers EXCEPT ![p] = (@ \ {Timer("ping", tag, 0)})
                                        \cup {Timer("ping", tag, PING_INTERVAL)}]
    /\ SendNow(IF PhoneOpen(p) THEN <<Wr(phoneConnection[p], PingFrame)>> ELSE << >>, inbox)
    /\ UNCHANGED <<cliVars, portOwner, procVars, corrVars, sockVars>>

PingFire(p, tag) == PingTimedOut(p, tag) \/ PingProbe(p, tag)

\* ------------------------------------------------------------ listener
\* A port on which every bind succeeds.
AddressNeverInUse(p) == FALSE

\* index.ts 92: the bind of p's server fails with EADDRINUSE exactly when the
\* port is held.
AddressInUse(p) == portOwner # 0

\* index.ts 117-122 with 215-254: the bind succeeded; connections are accepted
\* from now on and the ping interval runs.
Listening(p) ==
    /\ alive[p] = "running"
    /\ wss[p] = "pending"
    /\ ~AddressInUse(p)
    /\ portOwner' = p
    /\ wss' = [wss EXCEPT ![p] = "listening"]
    /\ LET r == StartPingInterval(timers[p], pingIntervalId[p])
       IN /\ timers' = [timers EXCEPT ![p] = r.timers]
          /\ pingIntervalId' = [pingIntervalId EXCEPT ![p] = r.id]
    /\ SendNow(<< >>, inbox)
    /\ UNCHANGED <<cliVars, alive, phoneConnection, sessionAge, lastPingAge, corrVars, sockVars>>

\* A 'connection' handler without the assignment of index.ts 228.
OnConnectionStale(p, s, peer, rs, ib) ==
    /\ readyState' = [WsClose(rs, phoneConnection[p]) EXCEPT ![s] = "OPEN"]
    /\ sockOwner' = [sockOwner EXCEPT ![s] = p]
    /\ sockKind' = [sockKind EXCEPT ![s] = "accepted"]
    /\ sockPeer' = [t \in Socks |-> IF t = s THEN peer ELSE IF t = peer THEN s ELSE sockPeer[t]]
    /\ terminated' = [terminated EXCEPT ![s] = 0]
    /\ phoneConnection' = [phoneConnection EXCEPT ![p] = s]
    /\ sessionAge' = Aged(p, 0)
    /\ lastPingAge' = lastPingAge
    /\ Send(<<Wr(s, PingFrame)>>, [ib EXCEPT ![s] = << >>], readyState', sockPeer')

\* index.ts 221-250: the 'connection' handler of the listener p for the new
\* socket s whose other end is `peer` (0: a phone).
OnConnection(p, s, peer, rs, ib) ==
    /\ readyState' = [WsClose(rs, phoneConnection[p]) EXCEPT ![s] = "OPEN"]
    /\ sockOwner' = [sockOwner EXCEPT ![s] = p]
    /\ sockKind' = [sockKind EXCEPT ![s] = "accepted"]
    /\ sockPeer' = [t \in Socks |-> IF t = s THEN peer ELSE IF t = peer THEN s ELSE sockPeer[t]]
    /\ terminated' = [terminated EXCEPT ![s] = 0]
    /\ phoneConnection' = [phoneConnection EXCEPT ![p] = s]
    /\ sessionAge' = Aged(p, 0)
    /\ lastPingAge' = [lastPingAge EXCEPT ![p] = 0]
    /\ Send(<<Wr(s, PingFrame)>>, [ib EXCEPT ![s] = << >>], readyState', sockPeer')

\* A phone connects to the listener p.
AcceptPhone(p) ==
    /\ alive[p] = "running"
    /\ wss[p] = "listening"
    /\ FreePhoneSocks # {}
    /\ OnConnection(p, MinSock(FreePhoneSocks), 0, readyState, inbox)
    /\ UNCHANGED <<cliVars, portOwner, alive, wss, pingIntervalId, corrVars, timers>>

\* The other end closed the connection, or the socket failed.
RemoteClose(s) ==
    /\ readyState[s] = "OPEN"
    /\ alive[sockOwner[s]] = "running"
    /\ IF sockPeer[s] = 0 THEN TRUE ELSE readyState[sockPeer[s]] \in {"CLOSING", "CLOSED"}
    /\ readyState' = [readyState EXCEPT ![s] = "CLOSING"]
    /\ SendNow(<< >>, inbox)
    /\ UNCHANGED <<cliVars, portOwner, procVars, corrVars, timers, sockOwner, sockPeer, sockKind,
                   terminated>>

\* index.ts 235-242: the 'close' event of an accepted socket.
CloseAccepted(s) ==
    /\ readyState[s] = "CLOSING"
    /\ sockKind[s] = "accepted"
    /\ alive[sockOwner[s]] = "running"
    /\ readyState' = [readyState EXCEPT ![s] = "CLOSED"]
    /\ phoneConnection' = [phoneConnection EXCEPT ![sockOwner[s]] = 0]
    /\ sessionAge' = Aged(sockOwner[s], 0)
    /\ terminated' = [terminated EXCEPT ![s] = 0]
    /\ SendNow(<< >>, [inbox EXCEPT ![s] = << >>])
    /\ UNCHANGED <<cliVars, portOwner, alive, wss, lastPingAge, pingIntervalId,
                   corrVars, timers, sockOwner, sockPeer, sockKind>>

\* ------------------------------------------------------------ follower
\* A relay that creates no ws client.
connectToNothing(p, ts) ==
    /\ timers' = ts
    /\ UNCHANGED <<sockVars, inbox, owed>>
    /\ NoWrite

\* index.ts 139-167: a ws client is created towards localhost on the same port
\* and the connection timeout is armed.
connectToExistingServer(p, ts) ==
    LET s == MinSock(FreeSocksWith(ts))
    IN /\ FreeSocksWith(ts) # {}
       /\ readyState' = [readyState EXCEPT ![s] = "CONNECTING"]
       /\ sockOwner' = [sockOwner EXCEPT ![s] = p]
       /\ sockKind' = [sockKind EXCEPT ![s] = "outbound"]
       /\ sockPeer' = [sockPeer EXCEPT ![s] = 0]
       /\ terminated' = [terminated EXCEPT ![s] = 0]
       /\ timers' = [ts EXCEPT ![p] = @ \cup {Timer("conn", s, CONNECTION_TIMEOUT)}]
       /\ inbox' = [inbox EXCEPT ![s] = << >>]
       /\ owed' = owed
       /\ NoWrite

\* index.ts 91-105: the bind failed with EADDRINUSE; the failed server is
\* closed and dropped, and the process connects to the owner of the port.
BindError(p) ==
    /\ alive[p] = "running"
    /\ wss[p] = "pending"
    /\ AddressInUse(p)
    /\ wss' = [wss EXCEPT ![p] = "null"]
    /\ connectToExistingServer(p, timers)
    /\ UNCHANGED <<cliVars, portOwner, alive, phoneConnection, sessionAge, lastPingAge, pingIntervalId, corrVars>>

\* The listener q completes the handshake of the connecting socket c.
AcceptFollower(q, c) ==
    /\ alive[q] = "running"
    /\ wss[q] = "listening"
    /\ portOwner = q
    /\ readyState[c] = "CONNECTING"
    /\ sockPeer[c] = 0
    /\ sockOwner[c] # q
    /\ HasFreeSock
    /\ OnConnection(q, NextSock, c, readyState, inbox)
    /\ UNCHANGED <<cliVars, portOwner, alive, wss, pingIntervalId, corrVars, timers>>

\* index.ts 169-196: the 'open' handler of the outbound socket c.
ConnectOpen(c) ==
    /\ readyState[c] = "CONNECTING"
    /\ sockPeer[c] # 0
    /\ alive[sockOwner[c]] = "running"
    /\ LET p == sockOwner[c]
           r == StartPingInterval(ClearTimeout(timers[p], "conn", c), pingIntervalId[p])
       IN /\ timers' = [timers EXCEPT ![p] = r.timers]
          /\ pingIntervalId' = [pingIntervalId EXCEPT ![p] = r.id]
          /\ phoneConnection' = [phoneConnection EXCEPT ![p] = c]
          /\ sessionAge' = Aged(p, 0)
          /\ lastPingAge' = [lastPingAge EXCEPT ![p] = 0]
    /\ readyState' = [readyState EXCEPT ![c] = "OPEN"]
    /\ Send(<<Wr(c, PingFrame)>>, inbox, readyState', sockPeer)
    /\ UNCHANGED <<cliVars, portOwner, alive, wss, corrVars, sockOwner, sockPeer, sockKind, terminated>>

\* The connection attempt fails (index.ts 198-200 logs the error): nobody
\* listens on the port.  No 'close' handler is attached yet.
ConnectFail(c) ==
    /\ readyState[c] = "CONNECTING"
    /\ sockPeer[c] = 0
    /\ alive[sockOwner[c]] = "running"
    /\ portOwner = 0
    /\ readyState' = [readyState EXCEPT ![c] = "CLOSED"]
    /\ UNCHANGED <<cliVars, portOwner, procVars, corrVars, timers, sockOwner, sockPeer, sockKind,
                   terminated, inbox, owed>>
    /\ NoWrite

\* index.ts 150-167: the connection timeout of socket c fires; a socket that is
\* not OPEN is terminated and a new bind is scheduled.
ConnectionTimeout(p, c, d) ==
    /\ alive[p] = "running"
    /\ Timer("conn", c, 0) \in timers[p]
    /\ IF readyState[c] # "OPEN"
       THEN /\ readyState' = [readyState EXCEPT ![c] = "CLOSED"]
            /\ timers' = [timers EXCEPT ![p] = (@ \ {Timer("conn", c, 0)})
                                                \cup {Timer("rebind", c, d)}]
            /\ inbox' = [inbox EXCEPT ![c] = << >>]
            /\ owed' = owed
            /\ NoWrite
       ELSE /\ timers' = [timers EXCEPT ![p] = @ \ {Timer("conn", c, 0)}]
            /\ UNCHANGED <<readyState, inbox, owed>>
            /\ NoWrite
    /\ UNCHANGED <<cliVars, portOwner, procVars, corrVars, sockOwner, sockPeer, sockKind, terminated>>

\* The scheduled callback without the call of initializeWebSocketServer.
RebindSkipped(p, c) ==
    /\ alive[p] = "running"
    /\ Timer("rebind", c, 0) \in timers[p]
    /\ timers' = [timers EXCEPT ![p] = @ \ {Timer("rebind", c, 0)}]
    /\ UNCHANGED <<cliVars, portOwner, procVars, corrVars, sockVars, inbox, owed>>
    /\ NoWrite

\* A scheduled bind that is run by an interval instead of a timeout.
RebindRepeats(p, c) ==
    /\ alive[p] = "running"
    /\ Timer("rebind", c, 0) \in timers[p]
    /\ timers' = timers
    /\ wss' = [wss EXCEPT ![p] = "pending"]
    /\ UNCHANGED <<cliVars, portOwner, alive, phoneConnection, sessionAge, lastPingAge,
                   pingIntervalId, corrVars, sockVars, inbox, owed>>
    /\ NoWrite

\* index.ts 158-165 with 64-89: the scheduled bind starts a new server.
RebindFire(p, c) ==
    /\ alive[p] = "running"
    /\ Timer("rebind", c, 0) \in timers[p]
    /\ timers' = [timers EXCEPT ![p] = @ \ {Timer("rebind", c, 0)}]
    /\ wss' = [wss EXCEPT ![p] = "pending"]
    /\ UNCHANGED <<cliVars, portOwner, alive, phoneConnection, sessionAge, lastPingAge, pingIntervalId, corrVars,
                   sockVars, inbox, owed>>
    /\ NoWrite

\* A 'close' handler that retries the bind instead of the connection.
CloseOutboundRebinds(c, d) ==
    /\ readyState[c] = "CLOSING"
    /\ sockKind[c] = "outbound"
    /\ alive[sockOwner[c]] = "running"
    /\ readyState' = [readyState EXCEPT ![c] = "CLOSED"]
    /\ terminated' = [terminated EXCEPT ![c] = 0]
    /\ phoneConnection' = [phoneConnection EXCEPT ![sockOwner[c]] = 0]
    /\ sessionAge' = Aged(sockOwner[c], 0)
    /\ timers' = [timers EXCEPT ![sockOwner[c]] = @ \cup {Timer("rebind", c, d)}]
    /\ inbox' = [inbox EXCEPT ![c] = << >>]
    /\ owed' = owed
    /\ NoWrite
    /\ UNCHANGED <<cliVars, portOwner, alive, wss, lastPingAge, pingIntervalId, corrVars,
                   sockOwner, sockPeer, sockKind>>

\* index.ts 180-189: the 'close' event of an opened outbound socket.
CloseOutbound(c, d) ==
    /\ readyState[c] = "CLOSING"
    /\ sockKind[c] = "outbound"
    /\ alive[sockOwner[c]] = "running"
    /\ readyState' = [readyState EXCEPT ![c] = "CLOSED"]
    /\ terminated' = [terminated EXCEPT ![c] = 0]
    /\ phoneConnection' = [phoneConnection EXCEPT ![sockOwner[c]] = 0]
    /\ sessionAge' = Aged(sockOwner[c], 0)
    /\ timers' = [timers EXCEPT ![sockOwner[c]] = @ \cup {Timer("reconnect", c, d)}]
    /\ inbox' = [inbox EXCEPT ![c] = << >>]
    /\ owed' = owed
    /\ NoWrite
    /\ UNCHANGED <<cliVars, portOwner, alive, wss, lastPingAge, pingIntervalId, corrVars,
                   sockOwner, sockPeer, sockKind>>

\* A reconnect that is run by an interval instead of a timeout.
ReconnectRepeats(p, c) ==
    /\ alive[p] = "running"
    /\ Timer("reconnect", c, 0) \in timers[p]
    /\ connectToExistingServer(p, timers)
    /\ UNCHANGED <<cliVars, portOwner, procVars, corrVars>>

\* index.ts 188: the scheduled reconnect.
ReconnectFire(p, c) ==
    /\ alive[p] = "running"
    /\ Timer("reconnect", c, 0) \in timers[p]
    /\ connectToExistingServer(p, [timers EXCEPT ![p] = @ \ {Timer("reconnect", c, 0)}])
    /\ UNCHANGED <<cliVars, portOwner, procVars, corrVars>>

\* A frame sent by the relay at the other end arrives on socket s.
Receive(s) ==
    /\ inbox[s] # << >>
    /\ Receiving(s)
    /\ alive[sockOwner[s]] = "running"
    /\ processIncomingMessage(sockOwner[s], s, Head(inbox[s]), [inbox EXCEPT ![s] = Tail(@)])

\* ------------------------------------------------------------- processes
\* index.ts 45-62 and 1493: a process is started; its constructor creates the
\* server, whose bind is under way.
Constructed(p) ==
    /\ alive[p] = "unstarted"
    /\ alive' = [alive EXCEPT ![p] = "running"]
    /\ wss' = [wss EXCEPT ![p] = "pending"]
    /\ UNCHANGED <<portOwner, phoneConnection, sessionAge, lastPingAge, pingIntervalId, corrVars, timers,
                   sockVars, inbox, owed>>
    /\ NoWrite

\* The host starts a process.
Start(p) == Constructed(p) /\ UNCHANGED cliVars

\* index.ts 1429-1471: the process ends; the port and its sockets are released.
ProcessExit(p) ==
    /\ alive[p] = "running"
    /\ alive' = [alive EXCEPT ![p] = "exited"]
    /\ portOwner' = IF portOwner = p THEN 0 ELSE portOwner
    /\ wss' = [wss EXCEPT ![p] = "null"]
    /\ phoneConnection' = [phoneConnection EXCEPT ![p] = 0]
    /\ lastPingAge' = [lastPingAge EXCEPT ![p] = AgeCap]
    /\ pingIntervalId' = [pingIntervalId EXCEPT ![p] = NoTimerId]
    /\ timers' = [timers EXCEPT ![p] = {}]
    /\ pendingRequests' = [pendingRequests EXCEPT ![p] = EmptyMap]
    /\ requestCounter' = [requestCounter EXCEPT ![p] = 0]
    /\ calls' = [calls EXCEPT ![p] = << >>]
    /\ fwds' = [fwds EXCEPT ![p] = << >>]
    /\ readyState' = [s \in Socks |-> IF sockOwner[s] = p THEN "CLOSED" ELSE readyState[s]]
    /\ terminated' = [s \in Socks |-> IF sockOwner[s] = p THEN 0 ELSE terminated[s]]
    /\ inbox' = [s \in Socks |-> IF sockOwner[s] = p THEN << >> ELSE inbox[s]]
    /\ owed' = [s \in Socks |-> IF sockOwner[s] = p THEN 0 ELSE owed[s]]
    /\ NoWrite
    /\ sessionAge' = Aged(p, 0)
    /\ UNCHANGED <<sockOwner, sockPeer, sockKind>>

\* The host ends a process.
Exit(p) == ProcessExit(p) /\ UNCHANGED cliVars

\* ----------------------------------------------------------------- time
\* 15000 ms pass: no armed timer is due, no frame is in flight on the local
\* links between relays and no bind is under way (each takes milliseconds).
Tick ==
    /\ \A p \in Procs : \A t \in timers[p] : t.left > 0
    /\ \A s \in Socks : inbox[s] = << >>
    /\ \A p \in Procs : wss[p] # "pending"
    /\ timers' = [p \in Procs |-> {[t EXCEPT !.left = @ - 1] : t \in timers[p]}]
    /\ lastPingAge' = [p \in Procs |-> MinOf(lastPingAge[p] + 1, AgeCap)]
    /\ sessionAge' = [p \in Procs |-> IF sessionAge[p] = Untracked \/ phoneConnection[p] = 0
                                       THEN sessionAge[p]
                                       ELSE MinOf(sessionAge[p] + 1, AgeCap)]
    /\ UNCHANGED <<cliVars, portOwner, alive, wss, phoneConnection, pingIntervalId,
                   corrVars, sockVars, inbox, owed>>
    /\ NoWrite

\* ------------------------------------------------- the relay with phones
PingTags == 0..1
CallIdx == 1..MaxCalls
FwdIdx == 1..MaxFwds

\* ------------------------------------------------- the command line (cli.ts)
relayVars == <<phoneConnection, pendingRequests, requestCounter, lastPingAge, pingIntervalId,
               timers, calls, fwds, sockOwner, sockPeer, sockKind, readyState, inbox,
               terminated, owed, wrote, sessionAge>>

\* server-manager 49-95: a TCP connection to the port succeeds.
isServerRunningOn(port) == IF port = DefaultPort THEN portOwner # 0 ELSE other # "none"

isServerRunning == isServerRunningOn(DefaultPort)

CliCommands == {"start", "stop", "restart"}

\* cli.ts 42-47, 67-70, 91-96: a command is entered; start and restart take
\* a port, stop takes none.
CliCommandOn(cmd, background, port) ==
    /\ cli = Idle
    /\ cmd = "stop" => ~background /\ port = DefaultPort
    /\ cli' = [cmd |-> cmd, at |-> IF cmd = "start" THEN "ensureCleanStart" ELSE "stopServer",
               found |-> FALSE, attempt |-> 0, background |-> background,
               port |-> port, stopPort |-> 0]
    /\ UNCHANGED <<portOwner, alive, wss, relayVars, pidFile, portFile, signalled, watched,
                   other, client>>

\* A command without the port option.
CliCommand(cmd, background) == CliCommandOn(cmd, background, DefaultPort)

\* cli.ts 13-19 and 49: the start command first looks for a server on its port
\* and, when there is one, sets out to stop it.
ensureCleanStart ==
    /\ cli.cmd = "start"
    /\ cli.at = "ensureCleanStart"
    /\ cli' = IF isServerRunningOn(cli.port)
              THEN [cli EXCEPT !.found = TRUE, !.at = "stopServer", !.attempt = 1]
              ELSE [cli EXCEPT !.at = "startServer"]
    /\ UNCHANGED <<portOwner, alive, wss, relayVars, pidFile, portFile, signalled, watched,
                   other, client>>

\* What follows a call of stopServer that returned `stopped`: cli.ts 22-39 for
\* start (up to 3 attempts, then process.exit(1)), 71-76 for stop, 97-105 for
\* restart (the result is not looked at).
AfterStop(stopped) ==
    IF cli.cmd = "stop" THEN Idle
    ELSE IF cli.cmd = "restart" \/ stopped THEN [cli EXCEPT !.at = "startServer", !.stopPort = 0]
    ELSE IF cli.attempt < 3
         THEN [cli EXCEPT !.at = "stopServer", !.attempt = @ + 1, !.stopPort = 0]
    ELSE Idle

\* server-manager 181-190: stopServer takes no port; it stops the server on
\* the port that the port file names, or on 11041 without a port file.
StopPort == IF portFile # 0 THEN portFile ELSE DefaultPort

\* The pid names a process that runs.
PidRuns(pid) ==
    IF pid = OtherPid THEN other # "none" ELSE pid # 0 /\ alive[pid] = "running"

\* The process that listens on the port (0: none).
ListenerOn(port) ==
    IF port = DefaultPort THEN portOwner ELSE IF other # "none" THEN OtherPid ELSE 0

\* server-manager 210-226: the process the PID file names is sent SIGTERM;
\* without such a process, the one that listens on the port is killed.
KillTargetOn(port) == IF PidRuns(pidFile) THEN pidFile ELSE ListenerOn(port)

KillTarget == KillTargetOn(DefaultPort)

\* server-manager 179-234: stopServer up to the removal of the files.  With no
\* server on its port it removes the files and returns true.
stopServer ==
    /\ cli.at = "stopServer"
    /\ pidFile' = 0
    /\ portFile' = 0
    /\ IF isServerRunningOn(StopPort)
       THEN /\ signalled' = signalled \cup ({KillTargetOn(StopPort)} \cap Procs)
            /\ other' = IF KillTargetOn(StopPort) = OtherPid THEN "signalled" ELSE other
            /\ cli' = [cli EXCEPT !.at = "stillRunning", !.stopPort = StopPort]
       ELSE /\ signalled' = signalled
            /\ other' = other
            /\ cli' = AfterStop(TRUE)
    /\ UNCHANGED <<portOwner, alive, wss, relayVars, watched, client>>

\* server-manager 236-243: stopServer returns false when its port still
\* answers.
stillRunning ==
    /\ cli.at = "stillRunning"
    /\ cli' = AfterStop(~isServerRunningOn(cli.stopPort))
    /\ UNCHANGED <<portOwner, alive, wss, relayVars, pidFile, portFile, signalled, watched,
                   other, client>>

\* server-manager 100-107: with a server on the port, startServer returns null.
startServerRunning ==
    /\ cli.at = "startServer"
    /\ isServerRunningOn(cli.port)
    /\ cli' = Idle
    /\ UNCHANGED <<portOwner, alive, wss, relayVars, pidFile, portFile, signalled, watched,
                   other, client>>

\* server-manager 109-165: the server is spawned, its pid and port are written
\* to the files, and a foreground parent waits for its 'exit'.
startServerSpawn(p) ==
    /\ cli.at = "startServer"
    /\ cli.port = DefaultPort
    /\ ~isServerRunningOn(cli.port)
    /\ Constructed(p)
    /\ pidFile' = p
    /\ portFile' = cli.port
    /\ watched' = IF cli.background THEN watched ELSE watched \cup {p}
    /\ cli' = Idle
    /\ UNCHANGED <<signalled, other, client>>

\* server-manager 109-165 for the other port: the server that is spawned
\* listens on it.
startServerOther ==
    /\ cli.at = "startServer"
    /\ cli.port = OtherPort
    /\ ~isServerRunningOn(cli.port)
    /\ other' = "listening"
    /\ pidFile' = OtherPid
    /\ portFile' = cli.port
    /\ watched' = IF cli.background THEN watched ELSE watched \cup {OtherPid}
    /\ cli' = Idle
    /\ UNCHANGED <<portOwner, alive, wss, relayVars, signalled, client>>

startServer == startServerRunning \/ \E p \in Procs : startServerSpawn(p)

\* index.ts 1459-1471 and server-manager 153-162: a process that was sent a
\* signal ends; its foreground parent removes the files.
Killed(p) ==
    /\ p \in signalled
    /\ ProcessExit(p)
    /\ signalled' = signalled \ {p}
    /\ watched' = watched \ {p}
    /\ pidFile' = IF p \in watched THEN 0 ELSE pidFile
    /\ portFile' = IF p \in watched THEN 0 ELSE portFile
    /\ UNCHANGED <<cli, other, client>>

\* The same for the server on the other port.
KilledOther ==
    /\ other = "signalled"
    /\ other' = "none"
    /\ watched' = watched \ {OtherPid}
    /\ pidFile' = IF OtherPid \in watched THEN 0 ELSE pidFile
    /\ portFile' = IF OtherPid \in watched THEN 0 ELSE portFile
    /\ UNCHANGED <<portOwner, alive, wss, relayVars, cli, signalled, client>>

NextCli ==
    \/ \E cmd \in CliCommands : \E background \in BOOLEAN : CliCommand(cmd, background)
    \/ ensureCleanStart
    \/ stopServer
    \/ stillRunning
    \/ startServer
    \/ \E p \in Procs : Killed(p)
    \/ \E p \in Procs : Listening(p)
    \/ \E p \in Procs : BindError(p)

SpecCli == Init /\ [][NextCli]_vars

\* The command line with the port option: servers on the default port and on
\* another port.
NextPorts ==
    \/ \E cmd \in CliCommands : \E background \in BOOLEAN : \E port \in Ports :
          CliCommandOn(cmd, background, port)
    \/ ensureCleanStart
    \/ stopServer
    \/ stillRunning
    \/ startServer
    \/ startServerOther
    \/ \E p \in Procs : Killed(p)
    \/ KilledOther
    \/ \E p \in Procs : Listening(p)
    \/ \E p \in Procs : BindError(p)

SpecPorts == Init /\ [][NextPorts]_vars

\* ------------------------------------------ the client (phonepi-cli client.ts)
RETRY_STEP == 2000
RETRY_CAP == 10000

FatalPhrases == {"Connection closed", "Cannot find module", "ENOENT", "not found"}

\* client.ts 116-119
Fatal(e) == e.has \cap FatalPhrases # {}

\* What mcp.connect raced with the 10 s timer, and mcp.listTools, can fail with.
ConnectErrors == {ErrTimeout, ErrClosed, ErrEnoent}
ListErrors == {ErrClosed}

notClient == <<portOwner, alive, wss, relayVars, pidFile, portFile, cli, signalled, watched,
               other>>

\* client.ts 51-83: an iteration of the loop cleans up, starts the server when
\* the client is not verbose, and creates the transport.
ClientBegin ==
    /\ client.at = "loop"
    /\ client.attempt <= client.retries
    /\ client' = [client EXCEPT !.at = "connect", !.tried = @ + 1, !.err = NoErr,
                                !.tools = 0]
    /\ UNCHANGED notClient
    /\ NoWrite

\* client.ts 51 and 141: the loop ends without an iteration left.
ClientNoAttempt ==
    /\ client.at = "loop"
    /\ client.attempt > client.retries
    /\ client' = [client EXCEPT !.at = "done", !.result = "false"]
    /\ UNCHANGED notClient
    /\ NoWrite

\* client.ts 86-91: the connection is made, or fails or times out.
ClientConnect(e) ==
    /\ client.at = "connect"
    /\ client' = IF e = NoErr THEN [client EXCEPT !.at = "listTools"]
                 ELSE [client EXCEPT !.at = "caught", !.err = e]
    /\ UNCHANGED notClient
    /\ NoWrite

\* client.ts 94-112: the tools are listed; with at least one the call returns
\* true, with none it throws.
ClientListTools(e, n) ==
    /\ client.at = "listTools"
    /\ client' = IF e # NoErr THEN [client EXCEPT !.at = "caught", !.err = e]
                 ELSE IF n = 0 THEN [client EXCEPT !.at = "caught", !.err = ErrNoTools]
                 ELSE [client EXCEPT !.at = "done", !.result = "true", !.tools = n]
    /\ UNCHANGED notClient
    /\ NoWrite

\* client.ts 113-133: the catch block exits on an error that tells that the
\* server cannot be started and, on the last attempt, cleans up and rethrows.
ClientCaught ==
    /\ client.at = "caught"
    /\ client' = IF Fatal(client.err)
                 THEN [client EXCEPT !.at = "done", !.result = "exit1"]
                 ELSE IF client.attempt = client.retries
                 THEN [client EXCEPT !.at = "done", !.result = "thrown",
                                     !.thrown = client.err, !.cleaned = TRUE]
                 ELSE [client EXCEPT !.at = "backoff"]
    /\ UNCHANGED notClient
    /\ NoWrite

\* A backoff without the cap.
ClientBackoffUncapped ==
    /\ client.at = "backoff"
    /\ client' = [client EXCEPT !.at = "loop", !.attempt = @ + 1,
                                !.waits = Append(@, RETRY_STEP * client.attempt)]
    /\ UNCHANGED notClient
    /\ NoWrite

\* client.ts 135-138: the wait before the next attempt.
ClientBackoff ==
    /\ client.at = "backoff"
    /\ client' = [client EXCEPT !.at = "loop", !.attempt = @ + 1,
                                !.waits = Append(@, MinOf(RETRY_STEP * client.attempt,
                                                          RETRY_CAP))]
    /\ UNCHANGED notClient
    /\ NoWrite

NextClient ==
    \/ ClientBegin
    \/ ClientNoAttempt
    \/ \E e \in ConnectErrors \cup {NoErr} : ClientConnect(e)
    \/ \E e \in ListErrors \cup {NoErr} : \E n \in 0..1 : ClientListTools(e, n)
    \/ ClientCaught
    \/ ClientBackoff

\* Every promise the call awaits settles: the connection is raced with a
\* timer and the waits are timers.
SpecClient == InitClient /\ [][NextClient]_vars /\ WF_vars(NextClient)

Next ==
    \/ \E p \in Procs : Listening(p)
    \/ \E p \in Procs : AcceptPhone(p)
    \/ \E s \in Socks : \E f \in PeerFrames : PhoneFrame(s, f)
    \/ \E s \in Socks : RemoteClose(s)
    \/ \E s \in Socks : CloseAccepted(s)
    \/ \E p \in Procs : \E tag \in PingTags : PingFire(p, tag)
    \/ \E p \in Procs : CallTool(p)
    \/ \E p \in Procs : \E i \in CallIdx : CallTimeout(p, i)
    \/ \E p \in Procs : \E j \in FwdIdx : FwdTimeout(p, j)
    \/ Tick

Spec == Init /\ [][Next]_vars

\* The frames of a phone that touch the pending-call table or the heartbeat.
CorrFrames ==
    {PongFrame}
    \cup {ResponseFrame(id, [status |-> "ok", body |-> "d1"]) : id \in PeerIds}
    \cup {RequestFrame(id, "get_battery_level") : id \in PeerIds}

NextCorr ==
    \/ \E p \in Procs : Listening(p)
    \/ \E p \in Procs : AcceptPhone(p)
    \/ \E s \in Socks : \E f \in CorrFrames : PhoneFrame(s, f)
    \/ \E s \in Socks : RemoteClose(s)
    \/ \E s \in Socks : CloseAccepted(s)
    \/ \E p \in Procs : \E tag \in PingTags : PingFire(p, tag)
    \/ \E p \in Procs : CallTool(p)
    \/ \E p \in Procs : \E i \in CallIdx : CallTimeout(p, i)
    \/ \E p \in Procs : \E j \in FwdIdx : FwdTimeout(p, j)
    \/ Tick

\* The event loop runs every timer that is due and completes a bind that is
\* under way, and time passes.  What phones and the host do is up to them.
FairTimers ==
    /\ WF_vars(\E p \in Procs : Listening(p))
    /\ WF_vars(\E p \in Procs : \E tag \in PingTags : PingFire(p, tag))
    /\ WF_vars(\E p \in Procs : \E i \in CallIdx : CallTimeout(p, i))
    /\ WF_vars(\E p \in Procs : \E j \in FwdIdx : FwdTimeout(p, j))
    /\ WF_vars(Tick)

SpecFair == Init /\ [][NextCorr]_vars /\ FairTimers


\* ------------------------------------- relay processes sharing the port
Delays == 0..REBIND_DELAY

NextRole ==
    \/ \E p \in Procs : Start(p)
    \/ \E p \in Procs : Listening(p)
    \/ \E p \in Procs : BindError(p)
    \/ \E q \in Procs : \E c \in Socks : AcceptFollower(q, c)
    \/ \E c \in Socks : ConnectOpen(c)
    \/ \E c \in Socks : ConnectFail(c)
    \/ \E p \in Procs : \E c \in Socks : \E d \in Delays : ConnectionTimeout(p, c, d)
    \/ \E p \in Procs : \E c \in Socks : RebindFire(p, c)
    \/ \E c \in Socks : \E d \in Delays : CloseOutbound(c, d)
    \/ \E p \in Procs : \E c \in Socks : ReconnectFire(p, c)
    \/ \E s \in Socks : Receive(s)
    \/ \E s \in Socks : RemoteClose(s)
    \/ \E s \in Socks : CloseAccepted(s)
    \/ \E p \in Procs : \E tag \in PingTags : PingFire(p, tag)
    \/ \E p \in Procs : Exit(p)
    \/ Tick

SpecRole == Init /\ [][NextRole]_vars



\* ------------------------------- relay processes under fair scheduling
\* Whether q is connected as a follower to the listener p.
FollowerConnected(q, p) ==
    /\ alive[p] = "running" /\ wss[p] = "listening"
    /\ alive[q] = "running" /\ wss[q] = "null"
    /\ \E c \in Socks :
          /\ sockOwner[c] = q /\ sockKind[c] = "outbound" /\ readyState[c] = "OPEN"
          /\ phoneConnection[q] = c
          /\ sockPeer[c] # 0
          /\ sockOwner[sockPeer[c]] = p /\ readyState[sockPeer[c]] = "OPEN"

\* The listener p ends while another process is connected to it as a follower.
ExitListener(p) ==
    /\ \E q \in Procs : FollowerConnected(q, p)
    /\ Exit(p)

NextRoleFair ==
    \/ \E p \in Procs : Start(p)
    \/ \E p \in Procs : Listening(p)
    \/ \E p \in Procs : BindError(p)
    \/ \E q \in Procs : \E c \in Socks : AcceptFollower(q, c)
    \/ \E c \in Socks : ConnectOpen(c)
    \/ \E c \in Socks : ConnectFail(c)
    \/ \E p \in Procs : \E c \in Socks : \E d \in Delays : ConnectionTimeout(p, c, d)
    \/ \E p \in Procs : \E c \in Socks : RebindFire(p, c)
    \/ \E c \in Socks : \E d \in Delays : CloseOutbound(c, d)
    \/ \E p \in Procs : \E c \in Socks : ReconnectFire(p, c)
    \/ \E s \in Socks : Receive(s)
    \/ \E s \in Socks : RemoteClose(s)
    \/ \E s \in Socks : CloseAccepted(s)
    \/ \E p \in Procs : \E tag \in PingTags : PingFire(p, tag)
    \/ \E p \in Procs : ExitListener(p)
    \/ Tick

\* The event loop runs every callback that is due: timers, socket events and
\* the outcome of a bind are taken when they stay enabled.  The handshake on
\* localhost takes milliseconds, far less than the 15000 ms after which the
\* attempt is given up, so an attempt that is made again and again is accepted
\* and opened.  When a process ends is not up to the scheduler.
FairRole ==
    /\ WF_vars(\E p \in Procs : Start(p))
    /\ WF_vars(\E p \in Procs : Listening(p))
    /\ WF_vars(\E p \in Procs : BindError(p))
    /\ SF_vars(\E q \in Procs : \E c \in Socks : AcceptFollower(q, c))
    /\ SF_vars(\E c \in Socks : ConnectOpen(c))
    /\ WF_vars(\E c \in Socks : ConnectFail(c))
    /\ WF_vars(\E p \in Procs : \E c \in Socks : \E d \in Delays : ConnectionTimeout(p, c, d))
    /\ WF_vars(\E p \in Procs : \E c \in Socks : RebindFire(p, c))
    /\ WF_vars(\E c \in Socks : \E d \in Delays : CloseOutbound(c, d))
    /\ WF_vars(\E p \in Procs : \E c \in Socks : ReconnectFire(p, c))
    /\ WF_vars(\E s \in Socks : Receive(s))
    /\ WF_vars(\E s \in Socks : RemoteClose(s))
    /\ WF_vars(\E s \in Socks : CloseAccepted(s))
    /\ WF_vars(\E p \in Procs : \E tag \in PingTags : PingFire(p, tag))
    /\ WF_vars(Tick)

SpecRoleFair == Init /\ [][NextRoleFair]_vars /\ FairRole

\* ------------------------- a listener with phones and a follower with calls
\* What a phone answers to the first request of a relay.
AnswerFrames == {ResponseFrame(RequestId(1), d) : d \in Payloads}

\* The start-up of the processes, the connections of phones and of the
\* follower, host calls and the frames they cause, before any timer is due.
NextRelay ==
    \/ \E p \in Procs : Start(p)
    \/ \E p \in Procs : Listening(p)
    \/ \E p \in Procs : BindError(p)
    \/ \E q \in Procs : \E c \in Socks : AcceptFollower(q, c)
    \/ \E c \in Socks : ConnectOpen(c)
    \/ \E p \in Procs : AcceptPhone(p)
    \/ \E s \in Socks : \E f \in AnswerFrames : PhoneFrame(s, f)
    \/ \E s \in Socks : Receive(s)
    \/ \E s \in Socks : RemoteClose(s)
    \/ \E s \in Socks : CloseAccepted(s)
    \/ \E p \in Procs : CallTool(p)

SpecRelay == Init /\ [][NextRelay]_vars

\* ------------------- the heartbeat over the connections of phones and relays
\* The relay processes sharing the port, phones that connect to the listener
\* and acknowledge its pings or not, and the age of each current connection.
NextSession ==
    \/ \E p \in Procs : Start(p)
    \/ \E p \in Procs : Listening(p)
    \/ \E p \in Procs : BindError(p)
    \/ \E q \in Procs : \E c \in Socks : AcceptFollower(q, c)
    \/ \E c \in Socks : ConnectOpen(c)
    \/ \E p \in Procs : \E c \in Socks : \E d \in Delays : ConnectionTimeout(p, c, d)
    \/ \E p \in Procs : \E c \in Socks : RebindFire(p, c)
    \/ \E c \in Socks : \E d \in Delays : CloseOutbound(c, d)
    \/ \E p \in Procs : \E c \in Socks : ReconnectFire(p, c)
    \/ \E p \in Procs : AcceptPhone(p)
    \/ \E s \in Socks : PhoneFrame(s, PongFrame)
    \/ \E s \in Socks : Receive(s)
    \/ \E s \in Socks : RemoteClose(s)
    \/ \E s \in Socks : CloseAccepted(s)
    \/ \E p \in Procs : \E tag \in PingTags : PingFire(p, tag)
    \/ Tick

SpecSession == InitAges /\ [][NextSession]_vars

\* -------------------------------- the frames written by each step, recorded
\* The requests of a phone that the relay forwards.
ForwardFrames == {RequestFrame(id, "get_battery_level") : id \in PeerIds}

\* The listener with phones that connect, ask and go, host calls, the heartbeat
\* and the deadlines.
NextWrites ==
    \/ \E p \in Procs : Listening(p)
    \/ \E p \in Procs : AcceptPhone(p)
    \/ \E s \in Socks : \E f \in ForwardFrames : PhoneFrame(s, f)
    \/ \E s \in Socks : RemoteClose(s)
    \/ \E s \in Socks : CloseAccepted(s)
    \/ \E p \in Procs : \E tag \in PingTags : PingFire(p, tag)
    \/ \E p \in Procs : CallTool(p)
    \/ \E p \in Procs : \E i \in CallIdx : CallTimeout(p, i)
    \/ \E p \in Procs : \E j \in FwdIdx : FwdTimeout(p, j)
    \/ Tick

SpecWrites == InitWrites /\ [][NextWrites]_vars

\* Input that is not JSON, without and with text in which a requestId can be
\* recognised.
InvalidFrames ==
    {Frame("invalid-json", NoId, NoTool, NoData),
     Frame("invalid-json", <<"peer", 1>>, NoTool, NoData)}

FrameInputs == PeerFrames \cup InvalidFrames

\* The listener, phones that write any frame, and host calls, before any
\* timer is due.
NextFrames ==
    \/ \E p \in Procs : Listening(p)
    \/ \E p \in Procs : AcceptPhone(p)
    \/ \E s \in Socks : \E f \in FrameInputs : PhoneFrame(s, f)
    \/ \E s \in Socks : RemoteClose(s)
    \/ \E s \in Socks : CloseAccepted(s)
    \/ \E p \in Procs : CallTool(p)

SpecFrames == InitWrites /\ [][NextFrames]_vars

\* ======================================================== properties
CallsOf(p) == 1..Len(calls[p])
LastCall(cs) == cs[Len(cs)]
TimeoutData == ErrData("Request timed out after 30 seconds")

\* A host call is issued by p in this step.
CallIssued(p) == Len(calls'[p]) = Len(calls[p]) + 1

\* C1: a host call issued while phoneConnection is null or not OPEN is rejected
\* in the same step; the pending-call table, the timers and the id counter are
\* as before and nothing is written to any connection.
C1_NoSessionRejects ==
    [][\A p \in Procs :
          (CallIssued(p) /\ (phoneConnection[p] = 0 \/ readyState[phoneConnection[p]] # "OPEN"))
          => /\ LastCall(calls'[p]).st = "rejected"
             /\ LastCall(calls'[p]).settles = 1
             /\ LastCall(calls'[p]).val \in {ErrData("Phone not connected"),
                                             ErrData("Phone connection is not open")}
             /\ pendingRequests' = pendingRequests
             /\ timers' = timers
             /\ requestCounter' = requestCounter
             /\ inbox' = inbox]_vars

\* A call was rejected for a connection that is set but closing, with nothing
\* registered.
C1_Witness ==
    \E p \in Procs :
       /\ phoneConnection[p] # 0
       /\ readyState[phoneConnection[p]] = "CLOSING"
       /\ Len(calls[p]) = 1
       /\ calls[p][1].st = "rejected"
       /\ calls[p][1].val = ErrData("Phone connection is not open")
       /\ pendingRequests[p] = EmptyMap
       /\ \A t \in timers[p] : t.kind # "call"

\* Whether some entry of p's table resolves host call i.
CallRegistered(p, i) ==
    \E k \in DOMAIN pendingRequests[p] : pendingRequests[p][k] = CallResolver(i)

CallTimerArmed(p, i) == \E t \in timers[p] : t.kind = "call" /\ t.tag = i

ResponseFrames == {f \in PeerFrames : f.type = "response"}

\* C2: every host call is settled at most once.  Once it is settled its
\* deadline is not armed, no entry of the table resolves it, and its outcome
\* stays as it is; a response whose id has no entry changes neither the
\* outcomes nor the table.
C2_SettledAtMostOnce ==
    /\ [](\A p \in Procs : \A i \in CallsOf(p) :
            /\ calls[p][i].settles <= 1
            /\ calls[p][i].st = "pending" <=> calls[p][i].settles = 0
            /\ calls[p][i].st # "pending"
               => ~CallTimerArmed(p, i) /\ ~CallRegistered(p, i))
    /\ [][\A p \in Procs : \A i \in CallsOf(p) :
            calls[p][i].st # "pending" => calls'[p][i] = calls[p][i]]_vars
    /\ [][<<calls, fwds, pendingRequests, timers>>' # <<calls, fwds, pendingRequests, timers>>
          => \A s \in Socks : \A f \in ResponseFrames :
                (sockOwner[s] # 0 /\ f.requestId \notin DOMAIN pendingRequests[sockOwner[s]])
                => ~PhoneFrame(s, f)]_vars

\* A call was resolved by a response while its connection is still open to
\* further responses, and time has passed beyond its deadline.
C2_Witness ==
    \E p \in Procs :
       /\ Len(calls[p]) = 1
       /\ calls[p][1].st = "resolved"
       /\ calls[p][1].settles = 1
       /\ calls[p][1].rid = RequestId(1)
       /\ \E s \in Socks : sockOwner[s] = p /\ readyState[s] = "OPEN"
       /\ lastPingAge[p] > CALL_TIMEOUT

\* The response that carries the id of p's host call i arrives on socket s with
\* payload d while the call is pending.
ResponseArrives(p, i, s, d) ==
    /\ i \in CallsOf(p)
    /\ calls[p][i].st = "pending"
    /\ sockOwner[s] = p
    /\ PhoneFrame(s, ResponseFrame(calls[p][i].rid, d))

\* C3: a response that carries the id of a pending host call resolves the call
\* with the payload of the frame, disarms its deadline and removes its entry,
\* whatever frames were processed since the request was sent.
C3_MatchingResponseResolves ==
    [][\A p \in Procs : \A i \in CallIdx : \A s \in Socks : \A d \in Payloads :
          ResponseArrives(p, i, s, d)
          => /\ calls'[p][i].st = "resolved"
             /\ calls'[p][i].val = d
             /\ \A t \in timers'[p] : ~(t.kind = "call" /\ t.tag = i)
             /\ calls[p][i].rid \notin DOMAIN pendingRequests'[p]]_vars

\* C4: a pending host call has its deadline armed, at most 30 s away; when the
\* deadline fires the call is rejected with the timeout error and the table has
\* no entry for its id; from then on the outcome stays as it is and no entry
\* resolves the call, whatever response arrives.
C4_DeadlineRejects ==
    /\ [](\A p \in Procs : \A i \in CallsOf(p) :
            /\ calls[p][i].st = "pending"
               => \E t \in timers[p] :
                     t.kind = "call" /\ t.tag = i /\ t.left <= CALL_TIMEOUT
            /\ calls[p][i].val = TimeoutData
               => calls[p][i].st = "rejected" /\ ~CallRegistered(p, i))
    /\ [][\A p \in Procs : \A i \in CallIdx :
            CallTimeout(p, i)
            => /\ calls[p][i].st = "pending"
               /\ calls'[p][i].st = "rejected"
               /\ calls'[p][i].val = TimeoutData
               /\ calls[p][i].rid \notin DOMAIN pendingRequests'[p]]_vars
    /\ [][\A p \in Procs : \A i \in CallsOf(p) :
            calls[p][i].val = TimeoutData => calls'[p][i].val = TimeoutData]_vars

\* A call timed out and its connection is still open to a late response.
C4_Witness ==
    \E p \in Procs :
       /\ Len(calls[p]) = 1
       /\ calls[p][1].st = "rejected"
       /\ calls[p][1].val = TimeoutData
       /\ calls[p][1].rid = RequestId(1)
       /\ PhoneOpen(p)

\* The listener p installs a new connection in this step.
SessionInstalled(p) ==
    /\ wss[p] = "listening"
    /\ phoneConnection'[p] # 0
    /\ phoneConnection'[p] # phoneConnection[p]

\* C5: when the listener installs a new connection, every host call that was
\* pending is rejected in that step.
C5_ReplacementRejectsPending ==
    [][\A p \in Procs : \A i \in CallsOf(p) :
          (SessionInstalled(p) /\ calls[p][i].st = "pending")
          => calls'[p][i].st = "rejected"]_vars

\* C6: the connection installed last stays the listener's current connection
\* for as long as it is open: only its own close, a heartbeat timeout or a newer
\* connection (each of which ends its OPEN state) takes it away.
C6_LastConnectionWins ==
    [][\A p \in Procs : \A b \in Socks :
          (/\ wss[p] = "listening"
           /\ phoneConnection[p] = b
           /\ readyState[b] = "OPEN"
           /\ readyState'[b] = "OPEN")
          => phoneConnection'[p] = b]_vars

OpenSocksOf(p) == {s \in Socks : sockOwner[s] = p /\ readyState[s] = "OPEN"}

\* C7: a relay process has at most one open peer connection.
C7_OneLiveConnection ==
    \A p \in Procs : Cardinality(OpenSocksOf(p)) <= 1

\* C8: the ping interval terminates a connection at most once, and a connection
\* it has terminated is no process's current connection, so that no later
\* firing reaches it; the firing that finds the connection timed out leaves it
\* not OPEN.
C8_TerminatedOnce ==
    /\ [](\A s \in Socks :
            /\ terminated[s] <= 1
            /\ terminated[s] = 1
               => readyState[s] # "OPEN" /\ \A p \in Procs : phoneConnection[p] # s)
    /\ [][\A p \in Procs : \A tag \in PingTags :
            (PingTimedOut(p, tag) /\ readyState[phoneConnection[p]] = "OPEN")
            => /\ terminated'[phoneConnection[p]] = 1
               /\ readyState'[phoneConnection[p]] # "OPEN"]_vars

\* A connection was terminated by the ping interval, its 'close' event is still
\* out, and the interval is about to fire again.
C8_Witness ==
    \E s \in Socks :
       /\ terminated[s] = 1
       /\ readyState[s] = "CLOSING"
       /\ \E t \in timers[sockOwner[s]] : t.kind = "ping" /\ t.left = 0
       /\ lastPingAge[sockOwner[s]] > PING_TIMEOUT

Listeners == {p \in Procs : alive[p] = "running" /\ wss[p] = "listening"}

\* C9: at most one process is listener, and a listener holds the port.
C9_OneListener ==
    /\ Cardinality(Listeners) <= 1
    /\ \A p \in Listeners : portOwner = p

\* One process listens while another one is running without a server.
C9_Witness ==
    \E p, q \in Procs :
       /\ p # q
       /\ p \in Listeners
       /\ alive[q] = "running"
       /\ wss[q] = "null"

\* The sockets through which p is, or is about to be, connected to the port.
OutboundOf(p) ==
    {c \in Socks : sockOwner[c] = p /\ sockKind[c] = "outbound" /\ readyState[c] # "CLOSED"}

\* The bind of p fails in this step: its server is pending, the port is held
\* and the step, which is not the end of the process, ends the bind.
BindFails(p) ==
    /\ alive[p] = "running"
    /\ wss[p] = "pending"
    /\ portOwner # 0
    /\ wss'[p] # "pending"
    /\ ~Exit(p)

\* C10: when its bind fails because the port is held, a process keeps running,
\* drops its server and has a new outbound socket connecting to the port with
\* the connection timeout armed; it never listens without holding the port.
C10_BindFailureFollows ==
    /\ [][\A p \in Procs :
            BindFails(p)
            => /\ alive'[p] = "running"
               /\ wss'[p] = "null"
               /\ \E c \in Socks :
                     /\ readyState[c] = "CLOSED"
                     /\ readyState'[c] = "CONNECTING"
                     /\ sockOwner'[c] = p
                     /\ sockKind'[c] = "outbound"
                     /\ Timer("conn", c, CONNECTION_TIMEOUT) \in timers'[p]]_vars
    /\ [](\A p \in Procs : wss[p] = "listening" => portOwner = p)

\* A process whose bind failed is connected to the listener as a follower.
C10_Witness ==
    \E p \in Procs : \E c \in OutboundOf(p) :
       /\ alive[p] = "running"
       /\ wss[p] = "null"
       /\ readyState[c] = "OPEN"
       /\ phoneConnection[p] = c
       /\ sockPeer[c] # 0
       /\ sockOwner[sockPeer[c]] = portOwner
       /\ phoneConnection[portOwner] = sockPeer[c]

\* The processes that were started against the port so far.
Started == {p \in Procs : alive[p] # "unstarted"}

\* C11: given two processes started against the port (and no third one, whose
\* connection would displace the follower's), eventually one of them is the
\* only listener and the other one is connected to it as a follower.
C11_EventuallyListenerAndFollower ==
    <>(\/ Cardinality(Started) > 2
       \/ \E p, q \in Procs : Cardinality(Listeners) = 1 /\ FollowerConnected(q, p))

\* The follower has just opened its connection to the only listener.
C11_Witness ==
    \E p, q \in Procs :
       /\ Listeners = {p}
       /\ FollowerConnected(q, p)
       /\ lastPingAge[q] = 0
       /\ phoneConnection[p] = sockPeer[phoneConnection[q]]

\* C13: when the port is free and a process is still running (the listener
\* ended and does not come back while another process follows it), some
\* running process eventually binds the port and is the listener.
C13_FollowerTakesOver ==
    ((portOwner = 0 /\ \E q \in Procs : alive[q] = "running")
        ~> (\E q \in Procs : alive[q] = "running" /\ wss[q] = "listening" /\ portOwner = q))

\* The listener has ended and the process that followed it holds the port.
C13_Witness ==
    \E p, q \in Procs :
       /\ alive[p] = "exited"
       /\ alive[q] = "running" /\ wss[q] = "listening" /\ portOwner = q
       /\ \E c \in Socks : sockOwner[c] = q /\ sockKind[c] = "outbound"

\* The connections of phones to the listener p that are open.
OpenPhonesOf(p) ==
    {a \in Socks : sockOwner[a] = p /\ sockKind[a] = "accepted" /\ sockPeer[a] = 0
                   /\ readyState[a] = "OPEN"}

\* The request of a host call of a follower is next on the listener's open
\* connection s from that follower, while a phone is connected to the listener.
FollowerCallArrives(s) ==
    /\ sockOwner[s] # 0 /\ sockKind[s] = "accepted" /\ readyState[s] = "OPEN"
    /\ wss[sockOwner[s]] = "listening"
    /\ sockPeer[s] # 0 /\ readyState[sockPeer[s]] = "OPEN"
    /\ phoneConnection[sockOwner[sockPeer[s]]] = sockPeer[s]
    /\ OpenPhonesOf(sockOwner[s]) # {}
    /\ inbox[s] # << >>
    /\ Head(inbox[s]).type = "request"
    /\ \E i \in CallsOf(sockOwner[sockPeer[s]]) :
          /\ calls[sockOwner[sockPeer[s]]][i].st = "pending"
          /\ calls[sockOwner[sockPeer[s]]][i].rid = Head(inbox[s]).requestId

\* C12: when the listener, with a phone connected, handles the request of a
\* host call issued at a connected follower, it forwards the request to the
\* phone: its current connection is the phone's, the forward is registered for
\* the follower's connection, and the request does not go back to the follower.
C12_FollowerCallForwardedToPeer ==
    [][\A s \in Socks :
          (FollowerCallArrives(s) /\ Receive(s))
             => /\ phoneConnection[sockOwner[s]] \in OpenPhonesOf(sockOwner[s])
                /\ \E j \in 1..Len(fwds'[sockOwner[s]]) :
                      /\ fwds'[sockOwner[s]][j].ws = s
                      /\ fwds'[sockOwner[s]][j].st = "pending"
                /\ inbox'[sockPeer[s]] = inbox[sockPeer[s]]]_vars

\* The forwards of process p that wait for the phone on behalf of socket s.
PendingFwdsFor(p, s) ==
    {j \in 1..Len(fwds[p]) : fwds[p][j].ws = s /\ fwds[p][j].st = "pending"}

C15_RegistrationNeverReplaces ==
    [][\A p \in Procs :
          \A k \in (DOMAIN pendingRequests[p]) \cap (DOMAIN pendingRequests'[p]) :
             pendingRequests'[p][k] = pendingRequests[p][k]]_vars

\* C16: when the current connection of a process has ended (the peer closed
\* it, it failed, or the heartbeat gave it up) and the process drops it, no
\* host call that was sent on it is still pending after that step.
C16_SessionEndRejectsPending ==
    [][\A p \in Procs :
          (alive'[p] = "running" /\ phoneConnection[p] # 0 /\ phoneConnection'[p] = 0
             /\ readyState'[phoneConnection[p]] # "OPEN")
          => \A i \in 1..Len(calls'[p]) :
                calls[p][i].sock = phoneConnection[p] => calls'[p][i].st # "pending"]_vars

\* C17: every host call that is pending is eventually resolved or rejected,
\* and a pending-call table that holds entries eventually holds none.
C17_CallsSettleTableEmpties ==
    /\ \A p \in Procs : \A i \in CallIdx :
          (i <= Len(calls[p]) /\ calls[p][i].st = "pending")
             ~> (i <= Len(calls[p]) /\ calls[p][i].st # "pending")
    /\ \A p \in Procs :
          (pendingRequests[p] # EmptyMap) ~> (pendingRequests[p] = EmptyMap)

\* A call was rejected by its deadline, a forward was answered, and the table
\* is empty again.
C17_Witness ==
    \E p \in Procs :
       /\ \E i \in CallsOf(p) : calls[p][i].st = "rejected" /\ calls[p][i].val = TimeoutData
       /\ \E j \in 1..Len(fwds[p]) : fwds[p][j].st # "pending"
       /\ pendingRequests[p] = EmptyMap

\* C18: a start command that found something listening on the port starts no
\* server: none of its steps spawns or signals a process or changes the PID
\* and port files.
C18_StartOnlyIfNotRunning ==
    [][(cli.cmd = "start" /\ cli.found /\ cli' # cli)
          => /\ pidFile' = pidFile /\ portFile' = portFile
             /\ signalled' = signalled
             /\ \A p \in Procs : alive[p] = "unstarted" => alive'[p] = "unstarted"]_vars

\* The inboxes after one ping frame was written on the open socket c.
PingedFrom(c) ==
    [t \in Socks |-> IF sockPeer[c] = t /\ readyState[t] # "CLOSED"
                     THEN Append(inbox[t], PingFrame) ELSE inbox[t]]

\* C19: a firing of the ping interval of a process that has a connection does
\* one of two things.  More than 45 s after the last acknowledgment the
\* connection is given up: it is dropped, no longer OPEN, and no frame is
\* written.  Otherwise the connection is kept as it is, and when it is OPEN
\* exactly one ping frame is written on it.  And time does not pass beyond the
\* first firing after 45 s: once the age exceeds 45 s a firing is due.
C19_HeartbeatTick ==
    /\ [](\A p \in Procs :
             (phoneConnection[p] # 0 /\ lastPingAge[p] > PING_TIMEOUT)
                => \E t \in timers[p] : t.kind = "ping" /\ t.left = 0)
    /\ [][\A p \in Procs : \A tag \in PingTags :
             (phoneConnection[p] # 0 /\ PingFire(p, tag))
                => IF lastPingAge[p] > PING_TIMEOUT
                   THEN /\ phoneConnection'[p] = 0
                        /\ readyState'[phoneConnection[p]] # "OPEN"
                        /\ inbox' = inbox
                   ELSE /\ phoneConnection'[p] = phoneConnection[p]
                        /\ readyState' = readyState
                        /\ inbox' = IF readyState[phoneConnection[p]] = "OPEN"
                                    THEN PingedFrom(phoneConnection[p]) ELSE inbox]_vars

\* The heartbeat of a relay gave up its link to another relay 60 s after the
\* last acknowledgment.
C19_Witness ==
    \E s \in Socks :
       /\ sockPeer[s] # 0 /\ sockOwner[s] # 0
       /\ terminated[s] = 1 /\ readyState[s] = "CLOSING"
       /\ phoneConnection[sockOwner[s]] = 0
       /\ lastPingAge[sockOwner[s]] = PING_TIMEOUT + 1

\* C20: the step that handles a pong frame sets the age of the last
\* acknowledgment of the receiving process to zero and changes nothing else:
\* the pending-call table, the calls and forwards, the timers, the current
\* connection, the role and every socket stay as they are, and no frame is
\* written (none reaches another relay, no response frame is counted).
C20_PongOnlyRefreshes ==
    [][\A s \in Socks :
          \/ /\ sockOwner[s] # 0
             /\ lastPingAge' = [lastPingAge EXCEPT ![sockOwner[s]] = 0]
             /\ UNCHANGED <<portOwner, alive, wss, phoneConnection, sessionAge, pingIntervalId, corrVars,
                            timers, sockVars, inbox, owed, wrote>>
          \/ ~(sockOwner[s] # 0 /\ PhoneFrame(s, PongFrame))]_vars

\* A pong arrived on the current connection after time had passed since a
\* call was sent on it: the age is zero again and the call is still pending.
C20_Witness ==
    \E p \in Procs : \E i \in CallsOf(p) :
       /\ lastPingAge[p] = 0
       /\ PhoneOpen(p)
       /\ calls[p][i].st = "pending"
       /\ calls[p][i].sock = phoneConnection[p]
       /\ pendingRequests[p] # EmptyMap
       /\ \E t \in timers[p] : t.kind = "call" /\ t.tag = i /\ t.left < CALL_TIMEOUT

\* C21: the heartbeat closes a connection only when it is the current one of
\* its process and was installed more than 45 s ago, and the age of the last
\* acknowledgment of a process never exceeds the age of its current connection:
\* a connection starts with a fresh timestamp, however stale the one before.
C21_FreshSessionNotTimedOut ==
    /\ [](\A p \in Procs : phoneConnection[p] # 0 => lastPingAge[p] <= sessionAge[p])
    /\ [][\A s \in Socks :
            terminated'[s] > terminated[s]
            => /\ phoneConnection[sockOwner[s]] = s
               /\ sessionAge[sockOwner[s]] > PING_TIMEOUT]_vars

\* The heartbeat gave up a connection, whose 'close' event is still out, and
\* the connection installed after it has been the current one for 45 s, with
\* the interval about to fire.
C21_Witness ==
    \E p \in Procs : \E a, b \in Socks :
       /\ sockOwner[a] = p /\ terminated[a] = 1 /\ readyState[a] = "CLOSING"
       /\ phoneConnection[p] = b /\ readyState[b] = "OPEN"
       /\ sessionAge[p] = PING_TIMEOUT
       /\ \E t \in timers[p] : t.kind = "ping" /\ t.left = 0

\* A ping frame is next on socket s, the open current connection of its owner.
PingArrives(s) ==
    /\ sockOwner[s] # 0
    /\ phoneConnection[sockOwner[s]] = s
    /\ readyState[s] = "OPEN"
    /\ sockPeer[s] # 0
    /\ inbox[s] # << >>
    /\ Head(inbox[s]).type = "ping"

\* C22: when a relay handles a ping frame that arrived on its open current
\* connection, it writes one pong frame on that connection and its last
\* acknowledgment is as of now.
C22_PingAnsweredWithPong ==
    [][\A s \in Socks :
          (PingArrives(s) /\ Receive(s))
          => /\ inbox'[sockPeer[s]] = Append(inbox[sockPeer[s]], PongFrame)
             /\ lastPingAge'[sockOwner[s]] = 0]_vars

\* The socket s is one end of a link between two running relays, open at both
\* ends.
HealthyLink(s) ==
    /\ sockOwner[s] # 0 /\ alive[sockOwner[s]] = "running"
    /\ readyState[s] = "OPEN"
    /\ sockPeer[s] # 0
    /\ alive[sockOwner[sockPeer[s]]] = "running"
    /\ readyState[sockPeer[s]] = "OPEN"

\* C23: the heartbeat of neither end closes a link between two running relays
\* that is open at both ends.
C23_LinkNotTimedOut ==
    [][\A s \in Socks : HealthyLink(s) => terminated'[s] = terminated[s]]_vars

\* The timers of kind k that p arms in this step.
Armed(p, k) ==
    {t \in timers'[p] : t.kind = k /\ ~\E u \in timers[p] : u.kind = k /\ u.tag = t.tag}

\* C24: the 'close' event of an established outbound connection of a running
\* process arms exactly one reconnect, at most 5 s away, and starts no bind;
\* the reconnect, when it fires, makes one new connection attempt and starts
\* no bind; a bind is only started by the retry that a connection timeout
\* armed, and a connection timeout arms it only for an attempt that is not
\* open.
C24_CloseReconnectsOnly ==
    /\ [][\A c \in Socks :
            (/\ sockKind[c] = "outbound" /\ readyState[c] = "CLOSING"
             /\ readyState'[c] = "CLOSED" /\ alive'[sockOwner[c]] = "running")
            => /\ \E d \in 0..RECONNECT_DELAY :
                     /\ Timer("reconnect", c, d) \notin timers[sockOwner[c]]
                     /\ timers'[sockOwner[c]] =
                           timers[sockOwner[c]] \cup {Timer("reconnect", c, d)}
               /\ wss'[sockOwner[c]] = wss[sockOwner[c]]
               /\ wss[sockOwner[c]] = "null"]_vars
    /\ [][\A p \in Procs : \A c \in Socks :
            (Timer("reconnect", c, 0) \in timers[p] \ timers'[p] /\ alive'[p] = "running")
            => /\ Cardinality({n \in Socks : readyState[n] = "CLOSED"
                                  /\ readyState'[n] = "CONNECTING" /\ sockOwner'[n] = p}) = 1
               /\ wss'[p] = wss[p]
               /\ Armed(p, "rebind") = {}]_vars
    /\ [][\A p \in Procs :
            /\ (alive[p] = "running" /\ wss[p] # "pending" /\ wss'[p] = "pending")
               => \E c \in Socks : Timer("rebind", c, 0) \in timers[p] \ timers'[p]
            /\ \A t \in Armed(p, "rebind") :
                  /\ Timer("conn", t.tag, 0) \in timers[p] \ timers'[p]
                  /\ readyState[t.tag] # "OPEN"
                  /\ phoneConnection[p] # t.tag]_vars

\* A follower whose established link was closed by the heartbeat of the
\* listener, which keeps the port, waits for its reconnect.
C24_Witness ==
    \E p \in Procs : \E c \in Socks : \E d \in 0..RECONNECT_DELAY :
       /\ alive[p] = "running" /\ wss[p] = "null"
       /\ portOwner # 0 /\ portOwner # p
       /\ Timer("reconnect", c, d) \in timers[p]
       /\ readyState[c] = "CLOSED"
       /\ sockOwner[c] = p /\ sockKind[c] = "outbound"
       /\ alive[portOwner] = "running" /\ lastPingAge[portOwner] > PING_TIMEOUT

\* The changes of this.wss of a running process: a bind under way succeeds or
\* fails, and a process without a server starts a bind.
RoleSteps == {<<"pending", "listening">>, <<"pending", "null">>, <<"null", "pending">>}

\* C25: a process that listens keeps listening and keeps the port for as long
\* as it runs, and has no connection attempt, reconnect or bind retry of its
\* own under way; a running process changes role only from a bind under way to
\* listener or follower, or from follower to a new bind, and the latter only by
\* the retry armed after a connection attempt of its own that did not open.
C25_RolesOneDirectional ==
    /\ [](\A p \in Listeners :
             /\ portOwner = p
             /\ OutboundOf(p) = {}
             /\ \A t \in timers[p] : t.kind \notin {"conn", "rebind", "reconnect"})
    /\ [][\A p \in Procs :
            (alive[p] = "running" /\ alive'[p] = "running" /\ wss'[p] # wss[p])
            => /\ <<wss[p], wss'[p]>> \in RoleSteps
               /\ wss[p] = "null"
                  => /\ phoneConnection[p] = 0
                     /\ OutboundOf(p) = {}
                     /\ \E c \in Socks :
                           /\ Timer("rebind", c, 0) \in timers[p]
                           /\ sockOwner[c] = p /\ sockKind[c] = "outbound"]_vars

\* A process that was a follower listens and holds the port; of its time as a
\* follower only the closed socket and the running ping interval are left.
C25_Witness ==
    \E q \in Listeners :
       /\ portOwner = q
       /\ \E c \in Socks : sockOwner[c] = q /\ sockKind[c] = "outbound" /\ readyState[c] = "CLOSED"
       /\ timers[q] # {}
       /\ \A t \in timers[q] : t.kind = "ping"
       /\ phoneConnection[q] = 0

\* The sockets on which this step wrote a request frame.
RequestWrites ==
    {wrote'.frames[k].sock :
        k \in {n \in 1..Len(wrote'.frames) : wrote'.frames[n].frame.type = "request"}}

\* C26: a request frame, of a host call or of a forward, is only written on a
\* socket that is the current connection of the writing process and OPEN before
\* and after the step, and that the heartbeat has not closed.
C26_RequestsOnActiveSession ==
    [][\A c \in RequestWrites :
          /\ c \in Socks
          /\ sockOwner[c] # 0
          /\ phoneConnection[sockOwner[c]] = c
          /\ phoneConnection'[sockOwner[c]] = c
          /\ readyState[c] = "OPEN"
          /\ readyState'[c] = "OPEN"
          /\ terminated[c] = 0]_vars

\* A request was just written on the current connection while the connection
\* it superseded, or that the heartbeat gave up, is still closing.
C26_Witness ==
    \E p \in Procs : \E a \in Socks :
       /\ sockOwner[a] = p /\ readyState[a] = "CLOSING" /\ phoneConnection[p] # a
       /\ PhoneOpen(p)
       /\ \E k \in 1..Len(wrote.frames) :
             /\ wrote.frames[k].frame.type = "request"
             /\ wrote.frames[k].sock = phoneConnection[p]

\* The state of the relay that a dropped frame leaves alone: the pending-call
\* table with the calls and forwards, the current connections, the last
\* acknowledgments, the roles, the timers and every socket.
Untouched ==
    UNCHANGED <<portOwner, alive, wss, phoneConnection, lastPingAge, pingIntervalId,
                corrVars, timers, sockVars, inbox, owed>>

UnknownFrame == Frame("unknown", NoId, NoTool, NoData)

\* The last step took frame f from socket s.
JustTook(s, f) == wrote.took = <<[sock |-> s, frame |-> f]>>

\* C27: the step that handles a frame of an unknown type changes nothing of
\* the relay's state, writes no frame and leaves the connection open.
C27_UnknownDropped ==
    [][\A s \in Socks :
          \/ ~JustTook(s, UnknownFrame)'
          \/ ~(sockOwner[s] # 0 /\ PhoneFrame(s, UnknownFrame))
          \/ Untouched /\ wrote'.frames = << >>]_vars

\* A frame of an unknown type was just dropped on the open current connection
\* on which a host call waits for its response.
C27_Witness ==
    \E p \in Procs : \E i \in CallsOf(p) :
       /\ PhoneOpen(p)
       /\ JustTook(phoneConnection[p], UnknownFrame)
       /\ wrote.frames = << >>
       /\ calls[p][i].st = "pending" /\ calls[p][i].sock = phoneConnection[p]
       /\ calls[p][i].rid \in DOMAIN pendingRequests[p]

NoToolFrame == RequestFrame(<<"peer", 1>>, NoTool)
NoIdFrame == RequestFrame(NoId, "get_battery_level")

\* C29: a request with a requestId and no tool is answered with exactly one
\* response frame that carries the requestId and an error payload, on the
\* connection it came from, and is neither forwarded nor registered; a request
\* without requestId is answered with nothing and changes nothing; a response
\* without requestId settles no call and no forward and leaves the table alone.
C29_MalformedFrames ==
    [][\A s \in Socks :
          /\ \/ ~JustTook(s, NoToolFrame)'
             \/ ~(sockOwner[s] # 0 /\ PhoneFrame(s, NoToolFrame))
             \/ /\ Untouched
                /\ Len(wrote'.frames) = 1
                /\ wrote'.frames[1].sock = s
                /\ wrote'.frames[1].frame.type = "response"
                /\ wrote'.frames[1].frame.requestId = NoToolFrame.requestId
                /\ wrote'.frames[1].frame.data.status = "error"
          /\ \/ ~JustTook(s, NoIdFrame)'
             \/ ~(sockOwner[s] # 0 /\ PhoneFrame(s, NoIdFrame))
             \/ Untouched /\ wrote'.frames = << >>
          /\ \A d \in Payloads :
                \/ ~JustTook(s, ResponseFrame(NoId, d))'
                \/ ~(sockOwner[s] # 0 /\ PhoneFrame(s, ResponseFrame(NoId, d)))
                \/ Untouched /\ wrote'.frames = << >>]_vars

\* A request without tool was just answered with an error response on the
\* open current connection; the host call that waits on it is still pending
\* and the table holds its entry alone.
C29_Witness ==
    \E p \in Procs : \E i \in CallsOf(p) :
       /\ PhoneOpen(p)
       /\ JustTook(phoneConnection[p], NoToolFrame)
       /\ wrote.frames = <<[sock |-> phoneConnection[p],
                             frame |-> ResponseFrame(<<"peer", 1>>,
                                                     ErrData("Missing tool name in request"))]>>
       /\ calls[p][i].st = "pending"
       /\ DOMAIN pendingRequests[p] = {calls[p][i].rid}

\* C30: the deadline callback of a host call or of a forward removes from the
\* pending-call table at most the entry of that call: every entry that holds
\* the resolver of another pending call is still there, unchanged, after the
\* step, also when a peer chose an id that the table already held.
C30_DeadlineRemovesOwnEntry ==
    [][\A p \in Procs :
          /\ \A i \in CallIdx :
                \/ Timer("call", i, 0) \notin timers[p]
                \/ ~CallTimeout(p, i)
                \/ \A k \in DOMAIN pendingRequests[p] :
                      pendingRequests[p][k] # CallResolver(i)
                         => /\ k \in DOMAIN pendingRequests'[p]
                            /\ pendingRequests'[p][k] = pendingRequests[p][k]
          /\ \A j \in FwdIdx :
                \/ Timer("fwd", j, 0) \notin timers[p]
                \/ ~FwdTimeout(p, j)
                \/ \A k \in DOMAIN pendingRequests[p] :
                      pendingRequests[p][k] # FwdResolver(j)
                         => /\ k \in DOMAIN pendingRequests'[p]
                            /\ pendingRequests'[p][k] = pendingRequests[p][k]]_vars

\* The listener with phones that connect, acknowledge and go, and the
\* heartbeat, with the frames of every step recorded.
NextPongs ==
    \/ \E p \in Procs : Listening(p)
    \/ \E p \in Procs : AcceptPhone(p)
    \/ \E s \in Socks : PhoneFrame(s, PongFrame)
    \/ \E s \in Socks : RemoteClose(s)
    \/ \E s \in Socks : CloseAccepted(s)
    \/ \E p \in Procs : \E tag \in PingTags : PingFire(p, tag)
    \/ Tick

SpecPongs == InitWrites /\ [][NextPongs]_vars

\* C31: a host call becomes resolved only in a step that takes a response
\* frame from the connection on which the call's request frame was sent; a
\* response that arrives on any other connection of the process, newer or
\* displaced, resolves no call that was sent elsewhere.
C31_ResponseOnSendingSession ==
    [][\A p \in Procs : \A i \in CallIdx :
          \/ i \notin CallsOf(p)
          \/ calls[p][i].st # "pending"
          \/ calls'[p][i].st # "resolved"
          \/ \E f \in ResponseFrames :
                wrote'.took = <<[sock |-> calls[p][i].sock, frame |-> f]>>]_vars

\* C32: a pong taken from a connection that is not the current connection of
\* its process leaves the last-acknowledged age of that process as it was.
C32_PongOnActiveSessionOnly ==
    [][\A s \in Socks :
          \/ lastPingAge' = lastPingAge
          \/ ~JustTook(s, PongFrame)'
          \/ s = phoneConnection[sockOwner[s]]]_vars

\* The request frames a phone or a relay can write.
RequestFrames == {f \in PeerFrames : f.type = "request"}

\* C33: the step that takes a request frame from connection c writes no
\* request frame on c: a request is never forwarded back onto the connection
\* it was received on.
C33_NoForwardBack ==
    [][\A s \in Socks : \A f \in RequestFrames :
          \/ ~JustTook(s, f)'
          \/ \A k \in 1..Len(wrote'.frames) :
                ~(wrote'.frames[k].sock = s /\ wrote'.frames[k].frame.type = "request")]_vars

\* The reconnects and bind retries that process p has scheduled.
RoleTimers(p) == {t \in timers[p] : t.kind \in {"reconnect", "rebind"}}

\* C34: a running process has at most one role activity: while it listens or
\* its bind is under way it has no outbound socket that is open, opening or
\* closing and no reconnect or bind retry scheduled, and otherwise its
\* outbound sockets that are not closed and its scheduled reconnects and bind
\* retries are, together, at most one.
C34_OneRoleActivity ==
    \A p \in Procs :
       alive[p] = "running"
          => /\ wss[p] # "null" => OutboundOf(p) = {} /\ RoleTimers(p) = {}
             /\ Cardinality(OutboundOf(p)) + Cardinality(RoleTimers(p)) <= 1

\* A follower whose attempt to reach the listener was given up has its bind
\* retry scheduled and nothing else under way.
C34_Witness ==
    \E p \in Procs : \E c \in Socks : \E d \in Delays :
       /\ alive[p] = "running" /\ wss[p] = "null"
       /\ RoleTimers(p) = {Timer("rebind", c, d)}
       /\ OutboundOf(p) = {}
       /\ sockOwner[c] = p /\ sockKind[c] = "outbound" /\ readyState[c] = "CLOSED"

\* C35: the start command leaves ensureCleanStart for startServer only when
\* nothing listens on its port, and when the third stopServer attempt has not
\* stopped the server the command ends without starting one.
C35_CleanStartFreesPort ==
    [][(/\ cli.cmd = "start" /\ cli' # cli
        /\ cli.at \in {"ensureCleanStart", "stopServer", "stillRunning"})
          => /\ cli'.at = "startServer" => ~isServerRunningOn(cli.port)'
             /\ (cli.at = "stillRunning" /\ cli.attempt = 3
                   /\ isServerRunningOn(cli.stopPort))
                  => cli' = Idle]_vars

\* The waits of a call that has made k failed attempts that were retried.
Backoffs(k) == [n \in 1..k |-> MinOf(RETRY_STEP * n, RETRY_CAP)]

\* What holds of every call of connectToServer, ended or not: it has begun at
\* most `retries` attempts and has waited min(2000 * n, 10000) ms after the
\* n-th attempt that failed and was retried.
ClientBounded ==
    /\ client.tried <= client.retries
    /\ client.waits = Backoffs(Len(client.waits))
    /\ client.at = "done" /\ client.tried > 0 => Len(client.waits) = client.tried - 1
    /\ client.at = "done" /\ client.result = "true"
          => client.tools >= 1 /\ client.err = NoErr

\* C36 as stated: at most `retries` attempts, true at the first attempt that
\* connects and lists a tool, the waits between failed attempts, and a call
\* whose last attempt failed has cleaned up and thrown that attempt's error;
\* the call always ends.
C36_LastFailureThrows ==
    /\ [](/\ ClientBounded
          /\ client.at = "done" /\ client.err # NoErr
                => /\ client.result = "thrown"
                   /\ client.thrown = client.err
                   /\ client.cleaned
                   /\ client.tried = client.retries)
    /\ <>(client.at = "done")

\* C36: connectToServer(retries) begins at most `retries` attempts, returns
\* true at the first attempt that connects and lists at least one tool, and
\* waits min(2000 * n, 10000) ms after the n-th failed attempt that it
\* retries.  An attempt that fails with an error whose message holds
\* "Connection closed", "Cannot find module", "ENOENT" or "not found" ends
\* the process with status 1 at once, without retry, cleanup or throw; the
\* last attempt that fails with another error is followed by the cleanup and
\* the throw of its error; with no attempt to make the call returns false.
\* The call always ends.
C36_ConnectRetries ==
    /\ [](/\ ClientBounded
          /\ client.at = "done"
                => \/ client.result = "true"
                   \/ /\ client.result = "exit1"
                      /\ Fatal(client.err) /\ ~client.cleaned /\ client.thrown = NoErr
                   \/ /\ client.result = "thrown"
                      /\ ~Fatal(client.err) /\ client.err # NoErr
                      /\ client.thrown = client.err
                      /\ client.cleaned
                      /\ client.tried = client.retries
                   \/ /\ client.result = "false"
                      /\ client.retries = 0 /\ client.tried = 0)
    /\ <>(client.at = "done")

\* A call that failed `retries` times has thrown the last error after waits
\* that reached the cap of 10000 ms.
C36_Witness ==
    /\ client.at = "done" /\ client.result = "thrown"
    /\ client.tried = client.retries
    /\ Len(client.waits) >= 6
    /\ client.waits[6] = RETRY_CAP /\ RETRY_STEP * 6 > RETRY_CAP

\* The heartbeat intervals that process p has armed.
PingTimers(p) == {t \in timers[p] : t.kind = "ping"}

\* C37: a process has at most one heartbeat interval armed, the one that
\* this._pingIntervalId names, and a process that has ended has none.
C37_OnePingInterval ==
    \A p \in Procs :
       /\ Cardinality(PingTimers(p)) <= 1
       /\ \A t \in PingTimers(p) : t.tag = pingIntervalId[p]
       /\ alive[p] # "running" => PingTimers(p) = {} /\ pingIntervalId[p] = NoTimerId

\* A follower between the close of its link and its reconnect: the interval
\* that was armed when the link opened is still the only one.
C37_Witness ==
    \E p \in Procs : \E c \in Socks : \E d \in 0..RECONNECT_DELAY :
       /\ alive[p] = "running" /\ wss[p] = "null"
       /\ Timer("reconnect", c, d) \in timers[p]
       /\ Cardinality(PingTimers(p)) = 1
       /\ \E q \in Listeners : q # p /\ Cardinality(PingTimers(q)) = 1
====
